---- MODULE Spec2Model ----
(***************************************************************************)
(* Model of the Linux selection hook (src/linux/selection_hook.cc and the  *)
(* protocol based variant in src/linux/protocols/x11.cc): the retrieval    *)
(* pipeline GetSelectedText with its in-progress guard, the clipboard      *)
(* fallback, the program-name filters and the gesture detector of          *)
(* ProcessMouseEvent.                                                      *)
(***************************************************************************)
EXTENDS Integers, Sequences, FiniteSets, TLC

(***************************************************************************)
(* Bounds of the model.                                                    *)
(***************************************************************************)
\* system_clock reading (ms since the epoch) when the module is loaded
StartTime == 100000
\* stands for 2^64, the modulus of uint64_t arithmetic; like 2^64 it exceeds
\* every clock reading of the model plus MAX_DRAG_TIME_MS (TLC integers are
\* 32 bits wide, so 2^64 itself cannot be written)
U64Modulus == 2000000000

(***************************************************************************)
(* Program constants.                                                      *)
(***************************************************************************)
MIN_DRAG_DISTANCE == 8
MAX_DRAG_TIME_MS == 8000
DOUBLE_CLICK_MAX_DISTANCE == 3
DOUBLE_CLICK_TIME_MS == 500

\* enum class FilterMode
FilterMode_Default == 0
FilterMode_IncludeList == 1
FilterMode_ExcludeList == 2
FilterModes == {FilterMode_Default, FilterMode_IncludeList, FilterMode_ExcludeList}

\* enum class SelectionMethod
SelectionMethod_None == 0
SelectionMethod_X11Selection == 21
SelectionMethod_Clipboard == 99

\* enum class SelectionPositionLevel
PosLevel_None == 0
PosLevel_MouseSingle == 1
PosLevel_MouseDual == 2
PosLevel_Full == 3
PosLevel_Detailed == 4

\* enum class SelectionDetectType
DetectType_None == 0
DetectType_Drag == 1
DetectType_DoubleClick == 2

\* the event codes ProcessMouseEvent switches on
BTN_LEFT == "BTN_LEFT"
BTN_RIGHT == "BTN_RIGHT"
BTN_MIDDLE == "BTN_MIDDLE"
REL_X == "REL_X"
REL_Y == "REL_Y"
REL_HWHEEL == "REL_HWHEEL"
REL_WHEEL == "REL_WHEEL"
BTN_BACK == "BTN_BACK"
BTN_FORWARD == "BTN_FORWARD"
\* a button code that is none of the five named ones
BTN_TASK == "BTN_TASK"

(***************************************************************************)
(* Values.                                                                 *)
(***************************************************************************)
\* struct Point
Point(px, py) == [x |-> px, y |-> py]

\* strings are sequences of characters; the program names a window can
\* resolve to (WM_CLASS res_name or window title)
ProgramNames ==
    { <<>>, <<"A">>, <<"b">>, <<"A", "b">>, <<"b", "A">>, <<"a", "a">> }

\* texts: "" is the empty string (and the empty clipboard); SelectedTexts are
\* the texts selected in the focused application, ClipboardTexts the texts
\* the user may have on the clipboard when the session starts
NoText == ""
SelectedTexts == {"t1"}
ClipboardTexts == {"t1", "t2"}

\* the program names in a fixed order
RECURSIVE SetToSeq(_)
SetToSeq(S) ==
    IF S = {} THEN <<>>
    ELSE LET e == CHOOSE e \in S : \A o \in S : Len(e) <= Len(o)
         IN <<e>> \o SetToSeq(S \ {e})

NameOfWindow == SetToSeq(ProgramNames)

\* window handles: 0 is "no active window", 1 is a window that carries neither
\* WM_CLASS nor a title, window w >= 2 is a window named NameOfWindow[w - 1]
Windows == 0..(Len(NameOfWindow) + 1)

\* ::tolower on one character
ToLowerChar(c) == IF c = "A" THEN "a" ELSE IF c = "B" THEN "b" ELSE c

\* std::transform(s.begin(), s.end(), s.begin(), ::tolower)
ToLower(s) == [i \in 1..Len(s) |-> ToLowerChar(s[i])]

\* std::string::find(needle) != npos : needle occurs in hay at some offset
StringFind(hay, needle) ==
    \E off \in 0..(Len(hay) - Len(needle)) :
        SubSeq(hay, off + 1, off + Len(needle)) = needle

\* elements of a JavaScript array handed to a list setter: strings, and
\* values for which value.IsString() is false
JsString(s) == [isString |-> TRUE, str |-> s]
JsOther == [isString |-> FALSE, str |-> <<>>]

\* the arrays handed to setGlobalFilterMode
JsArrays ==
    { <<>>,
      <<JsOther>>,
      <<JsString(<<>>)>>,
      <<JsString(<<"a">>)>>,
      <<JsString(<<"A", "b">>)>>,
      <<JsString(<<"b", "a">>), JsOther, JsString(<<"B">>)>> }

\* the arrays handed to setClipboardMode
ClipboardJsArrays == { <<>>, <<JsString(<<"A">>)>> }

\* SelectionHook::ProcessStringArrayToList: keep the strings, lower-cased
RECURSIVE ProcessStringArrayToList(_)
ProcessStringArrayToList(array) ==
    IF array = <<>> THEN <<>>
    ELSE LET value == Head(array)
             rest == ProcessStringArrayToList(Tail(array))
         IN IF value.isString THEN <<ToLower(value.str)>> \o rest ELSE rest

\* SelectionHook::IsInFilterList
RECURSIVE FilterListLoop(_, _)
FilterListLoop(lowerProgramName, filterList) ==
    IF filterList = <<>> THEN FALSE
    ELSE IF StringFind(lowerProgramName, Head(filterList)) THEN TRUE
    ELSE FilterListLoop(lowerProgramName, Tail(filterList))

\* IsInFilterList without the lower-casing of the program name
IsInFilterList_CaseSensitive(programName, filterList) ==
    IF filterList = <<>> THEN FALSE
    ELSE FilterListLoop(programName, filterList)

IsInFilterList(programName, filterList) ==
    IF filterList = <<>> THEN FALSE
    ELSE FilterListLoop(ToLower(programName), filterList)


\* uint64_t subtraction a - b
U64Sub(a, b) == IF a >= b THEN a - b ELSE U64Modulus - (b - a)

\* sqrt(dx * dx + dy * dy) compared with a whole number of pixels: the square
\* root of a small integer is below, at or above k exactly as the integer is
\* below, at or above k * k
\* the squared distance with the horizontal displacement left out
DistanceSq_YOnly(p, q) == (p.y - q.y) * (p.y - q.y)

DistanceSq(p, q) == (p.x - q.x) * (p.x - q.x) + (p.y - q.y) * (p.y - q.y)

\* distance > k where the code compares with >=
DistanceAtLeast_Strict(p, q, k) == DistanceSq(p, q) > k * k

DistanceAtLeast(p, q, k) == DistanceSq(p, q) >= k * k
DistanceAtMost(p, q, k) == DistanceSq(p, q) <= k * k

VARIABLES
    is_processing,            \* std::atomic<bool> is_processing
    clipboard,                \* content of the X11 CLIPBOARD selection
    global_filter_mode,
    global_filter_list,
    clipboard_filter_mode,
    clipboard_filter_list,
    is_enabled_clipboard,
    is_selection_passive_mode,
    call,                     \* per calling context: the GetSelectedText call in flight
    now,                      \* system_clock, ms since the epoch
    lastMouseDownPos,
    lastMouseDownTime,
    lastMouseUpPos,
    lastMouseUpTime,
    lastLastMouseUpPos,
    isLastValidClick,
    last,                     \* what the last handler did and delivered
    running,                  \* std::atomic<bool> running
    mouse_keyboard_running,   \* std::atomic<bool> mouse_keyboard_running
    tsfn,                     \* handle of the text-selection channel (0: empty)
    mouse_tsfn,               \* handle of the mouse-event channel (0: empty)
    keyboard_tsfn,            \* handle of the keyboard-event channel (0: empty)
    channels,                 \* every thread-safe function created so far
    event_thread,             \* std::thread event_thread
    input_devices,            \* number of entries of input_devices, all open
    epoll_fd,                 \* -1, or the epoll descriptor in use
    epolls_open,              \* number of epoll descriptors open in the process
    current_mouse_pos,
    is_enabled_mouse_move_event,
    mainPc,                   \* what the JavaScript thread is blocked in
    log,                      \* the notifications the consumer callback received
    nRaw,                     \* number of raw input events read so far
    stopped,                  \* a Stop that found the hook running has returned
                              \* and no Start has succeeded since
    xi_mouse_pos,             \* X11Protocol::current_mouse_pos
    currentInstance,          \* static SelectionHook *currentInstance
    sessionStart,             \* number of raw events read before the last
                              \* successful Start
    xi_delta_sum              \* sum of the raw deltas X11Protocol has handled,
                              \* in half pixels

configVars == <<global_filter_mode, global_filter_list, clipboard_filter_mode,
                clipboard_filter_list, is_enabled_clipboard>>
gestureVars == <<lastMouseDownPos, lastMouseDownTime, lastMouseUpPos, lastMouseUpTime,
                 lastLastMouseUpPos, isLastValidClick>>
lifeVars == <<running, mouse_keyboard_running, tsfn, mouse_tsfn, keyboard_tsfn,
              channels, event_thread, input_devices, epoll_fd, epolls_open,
              current_mouse_pos, is_enabled_mouse_move_event, mainPc, log, nRaw,
              stopped, xi_mouse_pos, currentInstance, sessionStart, xi_delta_sum>>
vars == <<is_processing, clipboard, global_filter_mode, global_filter_list,
          clipboard_filter_mode, clipboard_filter_list, is_enabled_clipboard,
          is_selection_passive_mode, call, now, lastMouseDownPos, lastMouseDownTime,
          lastMouseUpPos, lastMouseUpTime, lastLastMouseUpPos, isLastValidClick,
          last, running, mouse_keyboard_running, tsfn, mouse_tsfn, keyboard_tsfn,
          channels, event_thread, input_devices, epoll_fd, epolls_open,
          current_mouse_pos, is_enabled_mouse_move_event, mainPc, log, nRaw,
          stopped, xi_mouse_pos, currentInstance, sessionStart, xi_delta_sum>>

(***************************************************************************)
(* Platform backend (X11Protocol in protocols/x11.cc; the *X11 helpers of  *)
(* selection_hook.cc are placeholders that always fail, which is one of    *)
(* the outcomes below).  Each operator gives the set of outcomes of a call.*)
(***************************************************************************)

\* GetProgramNameFromWindow: WM_CLASS res_name, else the window title, else failure
GetProgramNameFromWindow(window) ==
    IF window = 0 \/ window = 1
        THEN {[ok |-> FALSE, programName |-> <<>>]}
        ELSE {[ok |-> TRUE, programName |-> NameOfWindow[window - 1]]}

\* GetSelectedTextFromSelection: the PRIMARY selection, success needs nitems > 0
GetSelectedTextFromSelection ==
    {[ok |-> FALSE, text |-> NoText]} \cup {[ok |-> TRUE, text |-> t] : t \in SelectedTexts}

\* SetTextRangeCoordinates: not implemented, reports no coordinates
SetTextRangeCoordinates(window) == FALSE

\* ReadClipboard: converts CLIPBOARD to UTF8_STRING; succeeds only with
\* nitems > 0, fails when there is no owner, no data or no answer in time
ReadClipboard(clip) ==
    {[ok |-> FALSE, text |-> NoText]}
        \cup (IF clip # NoText THEN {[ok |-> TRUE, text |-> clip]} ELSE {})

\* WriteClipboard: XSetSelectionOwner for a fresh window, then XDestroyWindow
\* of that window without ever serving a SelectionRequest.  When ownership
\* is obtained the call reports success and the previous owner has lost
\* the selection; the destroyed window leaves CLIPBOARD without an owner,
\* so its content is gone.  Otherwise (placeholder, ownership not obtained)
\* it reports failure and nothing changes.
WriteClipboard(clip, text) ==
    {[ok |-> FALSE, clipboard |-> clip], [ok |-> TRUE, clipboard |-> NoText]}

\* SendCopyKey(CtrlC) and the settle delay: the focused application may
\* answer the keystroke by taking the clipboard with its selected text
SendCopyKey(clip) ==
    {[copied |-> NoText, clipboard |-> clip]}
        \cup {[copied |-> t, clipboard |-> t] : t \in SelectedTexts}

(***************************************************************************)
(* TextSelectionInfo and the retrieval pipeline.  A call of                *)
(* GetSelectedText is a record m: its position pc, its locals, the shared  *)
(* state it reads and writes (is_processing, clipboard) and counters of    *)
(* the backend operations it performed.  Step(m) is the set of records     *)
(* after the next step of the call.                                        *)
(***************************************************************************)

\* a clear() that resets every field but method
ClearedInfo_MethodKept ==
    [text |-> NoText, programName |-> <<>>, method |-> SelectionMethod_X11Selection,
     posLevel |-> PosLevel_None, mousePosStart |-> Point(0, 0), mousePosEnd |-> Point(0, 0)]

\* TextSelectionInfo() and TextSelectionInfo::clear()
ClearedInfo ==
    [text |-> NoText, programName |-> <<>>, method |-> SelectionMethod_None,
     posLevel |-> PosLevel_None, mousePosStart |-> Point(0, 0), mousePosEnd |-> Point(0, 0)]

NewCall(window, proc, clip) ==
    [pc |-> "entry", window |-> window, is_processing |-> proc, clipboard |-> clip,
     info |-> ClearedInfo, resolved |-> FALSE,
     hasOriginalContent |-> FALSE, originalContent |-> NoText, newContent |-> NoText,
     ret |-> FALSE, acquired |-> FALSE, overlapped |-> FALSE,
     selReads |-> 0, clipReads |-> 0, clipWrites |-> 0, copyKeys |-> 0,
     clipBefore |-> NoText, appCopied |-> NoText, nativeText |-> NoText]

IdleCall == [NewCall(0, FALSE, NoText) EXCEPT !.pc = "idle"]

\* an exit path that returns without is_processing.store(false)
Release_GuardKept(m, r) == [m EXCEPT !.ret = r, !.pc = "done"]

\* is_processing.store(false); return r;
Release(m, r) == [m EXCEPT !.is_processing = FALSE, !.ret = r, !.pc = "done"]

\* a clipboard decision that consults the global filter list
ShouldProcessViaClipboard_GlobalList(programName) ==
    IF ~is_enabled_clipboard THEN FALSE
    ELSE IF clipboard_filter_mode = FilterMode_Default THEN TRUE
    ELSE IF clipboard_filter_mode = FilterMode_IncludeList
        THEN IsInFilterList(programName, global_filter_list)
    ELSE IF clipboard_filter_mode = FilterMode_ExcludeList
        THEN ~IsInFilterList(programName, global_filter_list)
    ELSE FALSE

\* SelectionHook::ShouldProcessViaClipboard
ShouldProcessViaClipboard(programName) ==
    IF ~is_enabled_clipboard THEN FALSE
    ELSE IF clipboard_filter_mode = FilterMode_Default THEN TRUE
    ELSE IF clipboard_filter_mode = FilterMode_IncludeList
        THEN IsInFilterList(programName, clipboard_filter_list)
    ELSE IF clipboard_filter_mode = FilterMode_ExcludeList
        THEN ~IsInFilterList(programName, clipboard_filter_list)
    ELSE FALSE

\* GetSelectedText: if (!window) return false; if (is_processing.load()) return false;
StepEntry(m) ==
    IF m.window = 0 THEN {[m EXCEPT !.ret = FALSE, !.pc = "done"]}
    ELSE IF m.is_processing THEN {[m EXCEPT !.ret = FALSE, !.pc = "done"]}
    ELSE {[m EXCEPT !.pc = "acquire"]}

\* GetSelectedText: else is_processing.store(true); selectionInfo.clear();
StepAcquire(m) ==
    {[m EXCEPT !.is_processing = TRUE, !.acquired = TRUE, !.info = ClearedInfo,
               !.pc = "resolve"]}

\* a global filter that lets every window without a program name pass
PassGlobalFilter_UnresolvedPasses(resolved, programName) ==
    IF ~resolved THEN TRUE
    ELSE IF global_filter_mode # FilterMode_Default
        THEN LET isIn == IsInFilterList(programName, global_filter_list)
             IN ~( (global_filter_mode = FilterMode_IncludeList /\ ~isIn)
                   \/ (global_filter_mode = FilterMode_ExcludeList /\ isIn) )
    ELSE TRUE

\* GetSelectedText: program name and global filter
PassGlobalFilter(resolved, programName) ==
    IF ~resolved THEN global_filter_mode # FilterMode_IncludeList
    ELSE IF global_filter_mode # FilterMode_Default
        THEN LET isIn == IsInFilterList(programName, global_filter_list)
             IN ~( (global_filter_mode = FilterMode_IncludeList /\ ~isIn)
                   \/ (global_filter_mode = FilterMode_ExcludeList /\ isIn) )
    ELSE TRUE

StepResolve(m) ==
    { LET named == [m EXCEPT !.resolved = r.ok,
                             !.info.programName = IF r.ok THEN r.programName ELSE <<>>]
      IN IF PassGlobalFilter(r.ok, r.programName)
            THEN [named EXCEPT !.pc = "native"]
            ELSE Release(named, FALSE)
      : r \in GetProgramNameFromWindow(m.window) }

\* a native strategy that never reports a text
NativeSucceeded_Never(r) == FALSE

\* GetTextViaX11Selection: if (GetSelectedTextFromX11(selectedText) && !selectedText.empty())
NativeSucceeded(r) == r.ok /\ r.text # NoText

\* GetTextViaX11Selection / GetTextViaSelection, and the decision to fall back
StepNative(m) ==
    { LET read == [m EXCEPT !.selReads = @ + 1,
                            !.nativeText = IF r.ok THEN r.text ELSE NoText]
      IN IF NativeSucceeded(r)
            THEN Release([read EXCEPT !.info.text = r.text,
                                      !.info.posLevel =
                                          IF SetTextRangeCoordinates(m.window)
                                              THEN PosLevel_Full ELSE PosLevel_None,
                                      !.info.method = SelectionMethod_X11Selection],
                         TRUE)
         ELSE IF ShouldProcessViaClipboard(m.info.programName)
            THEN [read EXCEPT !.pc = "clip_snapshot", !.clipBefore = m.clipboard]
         ELSE Release(read, FALSE)
      : r \in GetSelectedTextFromSelection }

\* GetTextViaClipboard: bool hasOriginalContent = ReadClipboard(originalContent);
StepClipSnapshot(m) ==
    { [m EXCEPT !.clipReads = @ + 1, !.hasOriginalContent = r.ok,
                !.originalContent = r.text, !.pc = "clip_copy"]
      : r \in ReadClipboard(m.clipboard) }

\* GetTextViaClipboard: SendCopyKey(CtrlC); sleep_for(100ms);
StepClipCopy(m) ==
    { [m EXCEPT !.copyKeys = @ + 1, !.clipboard = r.clipboard,
                !.appCopied = r.copied, !.pc = "clip_read"]
      : r \in SendCopyKey(m.clipboard) }

\* GetTextViaClipboard: read the new content and decide what to restore
StepClipRead(m) ==
    { LET read == [m EXCEPT !.clipReads = @ + 1, !.newContent = r.text]
      IN IF ~r.ok \/ r.text = NoText
            THEN IF m.hasOriginalContent
                    THEN [read EXCEPT !.pc = "clip_restore"]
                    ELSE Release(read, FALSE)
            ELSE LET stored == [read EXCEPT !.info.text = r.text]
                 IN IF m.hasOriginalContent /\ m.originalContent # r.text
                       THEN [stored EXCEPT !.pc = "clip_restore"]
                       ELSE Release([stored EXCEPT !.info.method = SelectionMethod_Clipboard],
                                    TRUE)
      : r \in ReadClipboard(m.clipboard) }

\* GetTextViaClipboard: WriteClipboard(originalContent); then return
StepClipRestore(m) ==
    { LET written == [m EXCEPT !.clipWrites = @ + 1, !.clipboard = r.clipboard]
      IN IF m.info.text # NoText
            THEN Release([written EXCEPT !.info.method = SelectionMethod_Clipboard], TRUE)
            ELSE Release(written, FALSE)
      : r \in WriteClipboard(m.clipboard, m.originalContent) }

Step(m) ==
    CASE m.pc = "entry" -> StepEntry(m)
      [] m.pc = "acquire" -> StepAcquire(m)
      [] m.pc = "resolve" -> StepResolve(m)
      [] m.pc = "native" -> StepNative(m)
      [] m.pc = "clip_snapshot" -> StepClipSnapshot(m)
      [] m.pc = "clip_copy" -> StepClipCopy(m)
      [] m.pc = "clip_read" -> StepClipRead(m)
      [] m.pc = "clip_restore" -> StepClipRestore(m)
      [] OTHER -> {m}

\* SelectionHook::GetSelectedText run from entry to return on one thread:
\* the set of completed calls
RECURSIVE RunCalls(_)
RunCalls(S) ==
    IF \A m \in S : m.pc = "done" THEN S
    ELSE RunCalls(UNION {Step(m) : m \in S})

GetSelectedText(window) == RunCalls({NewCall(window, is_processing, clipboard)})


(***************************************************************************)
(* What the last operation did: the GetSelectedText call it made (if any), *)
(* the TextSelectionInfo it handed to the consumer (if any), and for a     *)
(* mouse event the event, the detection made and the mouse-event action    *)
(* emitted.                                                                *)
(***************************************************************************)
NoEvent == [code |-> "none", value |-> 0, pos |-> Point(0, 0)]

NoLast ==
    [op |-> "none", window |-> 0, invoked |-> FALSE, m |-> IdleCall,
     hasResult |-> FALSE, result |-> ClearedInfo,
     ev |-> NoEvent, passive |-> FALSE, detect |-> DetectType_None, action |-> "",
     error |-> "", returned |-> TRUE, out |-> <<>>,
     cookie |-> [evtype |-> "none", detail |-> 0, dx |-> 0, dy |-> 0],
     env |-> [WAYLAND_DISPLAY |-> [set |-> FALSE, str |-> <<>>],
              DISPLAY |-> [set |-> FALSE, str |-> <<>>]],
     protocol |-> 0, backend |-> ClearedInfo, deref |-> "none"]

(***************************************************************************)
(* Consumer-facing operations (run on the JavaScript thread).              *)
(***************************************************************************)

\* SelectionHook::SetGlobalFilterMode
SetGlobalFilterMode(mode, listArray) ==
    /\ global_filter_mode' = mode
    /\ global_filter_list' = ProcessStringArrayToList(listArray)
    /\ last' = [NoLast EXCEPT !.op = "SetGlobalFilterMode"]
    /\ UNCHANGED <<is_processing, clipboard, clipboard_filter_mode, clipboard_filter_list,
                   is_enabled_clipboard, is_selection_passive_mode, call, now,
                   gestureVars>>
    /\ UNCHANGED lifeVars

\* SelectionHook::SetClipboardMode
SetClipboardMode(mode, listArray) ==
    /\ clipboard_filter_mode' = mode
    /\ clipboard_filter_list' = ProcessStringArrayToList(listArray)
    /\ last' = [NoLast EXCEPT !.op = "SetClipboardMode"]
    /\ UNCHANGED <<is_processing, clipboard, global_filter_mode, global_filter_list,
                   is_enabled_clipboard, is_selection_passive_mode, call, now,
                   gestureVars>>
    /\ UNCHANGED lifeVars

\* SelectionHook::EnableClipboard
EnableClipboard ==
    /\ is_enabled_clipboard' = TRUE
    /\ last' = [NoLast EXCEPT !.op = "EnableClipboard"]
    /\ UNCHANGED <<is_processing, clipboard, global_filter_mode, global_filter_list,
                   clipboard_filter_mode, clipboard_filter_list,
                   is_selection_passive_mode, call, now, gestureVars>>
    /\ UNCHANGED lifeVars

\* SelectionHook::DisableClipboard
DisableClipboard ==
    /\ is_enabled_clipboard' = FALSE
    /\ last' = [NoLast EXCEPT !.op = "DisableClipboard"]
    /\ UNCHANGED <<is_processing, clipboard, global_filter_mode, global_filter_list,
                   clipboard_filter_mode, clipboard_filter_list,
                   is_selection_passive_mode, call, now, gestureVars>>
    /\ UNCHANGED lifeVars

\* SelectionHook::SetSelectionPassiveMode
SetSelectionPassiveMode(b) ==
    /\ is_selection_passive_mode' = b
    /\ last' = [NoLast EXCEPT !.op = "SetSelectionPassiveMode"]
    /\ UNCHANGED <<is_processing, clipboard, configVars, call, now, gestureVars>>
    /\ UNCHANGED lifeVars

\* SelectionHook::GetCurrentSelection: ShouldProcessGetSelection() is always
\* true; no active window gives null; otherwise the pipeline runs and its
\* result is returned when it succeeded with a non-empty text
GetCurrentSelection(activeWindow) ==
    /\ IF activeWindow = 0
          THEN /\ last' = [NoLast EXCEPT !.op = "GetCurrentSelection",
                                         !.passive = is_selection_passive_mode]
               /\ UNCHANGED <<is_processing, clipboard>>
          ELSE \E m \in GetSelectedText(activeWindow) :
                  /\ is_processing' = m.is_processing
                  /\ clipboard' = m.clipboard
                  /\ last' = [NoLast EXCEPT
                                 !.op = "GetCurrentSelection",
                                 !.passive = is_selection_passive_mode,
                                 !.window = activeWindow,
                                 !.invoked = TRUE,
                                 !.m = m,
                                 !.hasResult = (m.ret /\ m.info.text # NoText),
                                 !.result = IF m.ret /\ m.info.text # NoText
                                               THEN m.info ELSE ClearedInfo]
    /\ UNCHANGED <<configVars, is_selection_passive_mode, call, now, gestureVars>>
    /\ UNCHANGED lifeVars

(***************************************************************************)
(* GetSelectedText called from several contexts at once, one step at a     *)
(* time.                                                                   *)
(***************************************************************************)
Callers == {"c1", "c2"}

InFlight(c) == call[c].pc \notin {"idle", "done"}

\* the call of context c is past the test of the guard and has not returned
PastGuardTest(c) == call[c].pc \notin {"idle", "done", "entry"}

\* a context enters GetSelectedText(window, selectionInfo)
BeginCall(c, window) ==
    /\ ~InFlight(c)
    /\ call' = [call EXCEPT ![c] =
                   [NewCall(window, FALSE, NoText) EXCEPT
                       !.overlapped = \E d \in Callers \ {c} : PastGuardTest(d)]]
    /\ UNCHANGED <<is_processing, clipboard, configVars, is_selection_passive_mode,
                   now, gestureVars, last>>
    /\ UNCHANGED lifeVars

\* the call of context c takes its next step on the shared state
StepCall(c) ==
    /\ InFlight(c)
    /\ \E m \in Step([call[c] EXCEPT !.is_processing = is_processing,
                                     !.clipboard = clipboard]) :
          /\ is_processing' = m.is_processing
          /\ clipboard' = m.clipboard
          /\ call' = [call EXCEPT ![c] = [m EXCEPT !.is_processing = FALSE,
                                                   !.clipboard = NoText]]
    /\ UNCHANGED <<configVars, is_selection_passive_mode, now, gestureVars, last>>
    /\ UNCHANGED lifeVars

(***************************************************************************)
(* Specifications.                                                         *)
(***************************************************************************)
Init ==
    /\ is_processing = FALSE
    /\ clipboard \in {NoText} \cup ClipboardTexts
    /\ global_filter_mode = FilterMode_Default
    /\ global_filter_list = <<>>
    /\ clipboard_filter_mode = FilterMode_Default
    /\ clipboard_filter_list = <<>>
    /\ is_enabled_clipboard = TRUE
    /\ is_selection_passive_mode = FALSE
    /\ call = [c \in Callers |-> IdleCall]
    /\ now = StartTime
    /\ lastMouseDownPos = Point(0, 0)
    /\ lastMouseDownTime = 0
    /\ lastMouseUpPos = Point(0, 0)
    /\ lastMouseUpTime = 0
    /\ lastLastMouseUpPos = Point(0, 0)
    /\ isLastValidClick = FALSE
    /\ last = NoLast
    /\ running = FALSE
    /\ mouse_keyboard_running = FALSE
    /\ tsfn = 0
    /\ mouse_tsfn = 0
    /\ keyboard_tsfn = 0
    /\ channels = <<>>
    /\ event_thread = "none"
    /\ input_devices = 0
    /\ epoll_fd = -1
    /\ epolls_open = 0
    /\ current_mouse_pos = Point(0, 0)
    /\ is_enabled_mouse_move_event = FALSE
    /\ mainPc = "idle"
    /\ log = <<>>
    /\ nRaw = 0
    /\ stopped = FALSE
    /\ xi_mouse_pos = Point(0, 0)
    /\ currentInstance = "this"
    /\ sessionStart = 0
    /\ xi_delta_sum = Point(0, 0)

\* the retrieval pipeline called on demand, under every filter configuration
NextRetrieve ==
    \/ \E mode \in FilterModes, a \in JsArrays : SetGlobalFilterMode(mode, a)
    \/ \E mode \in FilterModes, a \in ClipboardJsArrays : SetClipboardMode(mode, a)
    \/ EnableClipboard
    \/ DisableClipboard
    \/ \E w \in Windows : GetCurrentSelection(w)

SpecRetrieve == Init /\ [][NextRetrieve]_vars

\* two contexts calling GetSelectedText, interleaved step by step
RaceWindows == {0, 1, 2}

NextRace ==
    \/ \E c \in Callers, w \in RaceWindows : BeginCall(c, w)
    \/ \E c \in Callers : StepCall(c)

SpecRace == Init /\ [][NextRace]_vars

(***************************************************************************)
(* SelectionHook::ProcessMouseEvent: the gesture detector.  The handler    *)
(* runs on the JavaScript thread for one queued MouseEventContext; it      *)
(* reads the clock (currentTime), classifies the event, on a detection     *)
(* runs the retrieval pipeline for the active window and queues the        *)
(* text-selection event, and emits the mouse-event.                        *)
(***************************************************************************)

\* the switch on mouseCode: the action string of the emitted mouse-event
MouseTypeStr(ev) ==
    IF ev.code = BTN_LEFT
        THEN IF ev.value = 1 THEN "mouse-down"
             ELSE IF ev.value = 0 THEN "mouse-up" ELSE ""
    ELSE IF ev.code \in {BTN_RIGHT, BTN_MIDDLE}
        THEN IF ev.value = 1 THEN "mouse-down" ELSE "mouse-up"
    ELSE IF ev.code \in {REL_WHEEL, REL_HWHEEL} THEN "mouse-wheel"
    ELSE IF ev.code \in {REL_X, REL_Y} THEN "mouse-move"
    ELSE "unknown"

\* bool isCurrentValidClick = (currentTime - lastMouseDownTime) <= DOUBLE_CLICK_TIME_MS;
IsCurrentValidClick(currentTime) ==
    U64Sub(currentTime, lastMouseDownTime) <= DOUBLE_CLICK_TIME_MS

\* the chain with the duration cutoff taken at >= MAX_DRAG_TIME_MS
DetectOnRelease_CutoffInclusive(currentPos, currentTime) ==
    IF U64Sub(currentTime, lastMouseDownTime) >= MAX_DRAG_TIME_MS
        THEN DetectType_None
    ELSE IF DistanceAtLeast(currentPos, lastMouseDownPos, MIN_DRAG_DISTANCE)
        THEN DetectType_Drag
    ELSE IF /\ isLastValidClick
            /\ IsCurrentValidClick(currentTime)
            /\ DistanceAtMost(currentPos, lastMouseDownPos, DOUBLE_CLICK_MAX_DISTANCE)
        THEN IF /\ DistanceAtMost(currentPos, lastMouseUpPos, DOUBLE_CLICK_MAX_DISTANCE)
                /\ U64Sub(lastMouseDownTime, lastMouseUpTime) <= DOUBLE_CLICK_TIME_MS
                THEN DetectType_DoubleClick
                ELSE DetectType_None
    ELSE DetectType_None

\* the chain without the test of the gap between the previous release and
\* this press
DetectOnRelease_NoGapCheck(currentPos, currentTime) ==
    IF U64Sub(currentTime, lastMouseDownTime) > MAX_DRAG_TIME_MS
        THEN DetectType_None
    ELSE IF DistanceAtLeast(currentPos, lastMouseDownPos, MIN_DRAG_DISTANCE)
        THEN DetectType_Drag
    ELSE IF /\ isLastValidClick
            /\ IsCurrentValidClick(currentTime)
            /\ DistanceAtMost(currentPos, lastMouseDownPos, DOUBLE_CLICK_MAX_DISTANCE)
        THEN IF DistanceAtMost(currentPos, lastMouseUpPos, DOUBLE_CLICK_MAX_DISTANCE)
                THEN DetectType_DoubleClick
                ELSE DetectType_None
    ELSE DetectType_None

\* the if / else-if chain of a left-button release outside passive mode
DetectOnRelease(currentPos, currentTime) ==
    IF U64Sub(currentTime, lastMouseDownTime) > MAX_DRAG_TIME_MS
        THEN DetectType_None
    ELSE IF DistanceAtLeast(currentPos, lastMouseDownPos, MIN_DRAG_DISTANCE)
        THEN DetectType_Drag
    ELSE IF /\ isLastValidClick
            /\ IsCurrentValidClick(currentTime)
            /\ DistanceAtMost(currentPos, lastMouseDownPos, DOUBLE_CLICK_MAX_DISTANCE)
        THEN IF /\ DistanceAtMost(currentPos, lastMouseUpPos, DOUBLE_CLICK_MAX_DISTANCE)
                /\ U64Sub(lastMouseDownTime, lastMouseUpTime) <= DOUBLE_CLICK_TIME_MS
                THEN DetectType_DoubleClick
                ELSE DetectType_None
    ELSE DetectType_None

\* detection on a left-button release whatever the passive-mode flag says
DetectionType_IgnoresPassive(ev, currentTime) ==
    IF ev.code = BTN_LEFT /\ ev.value = 0
        THEN DetectOnRelease(ev.pos, currentTime)
        ELSE DetectType_None

\* detection on the release of any button
DetectionType_AnyButton(ev, currentTime) ==
    IF ev.value = 0 /\ ~is_selection_passive_mode
        THEN DetectOnRelease(ev.pos, currentTime)
        ELSE DetectType_None

\* detection happens on a left-button release, and only outside passive mode
DetectionType(ev, currentTime) ==
    IF ev.code = BTN_LEFT /\ ev.value = 0 /\ ~is_selection_passive_mode
        THEN DetectOnRelease(ev.pos, currentTime)
        ELSE DetectType_None

\* an enrichment that sets the positions and leaves the level as reported
Enrich_LevelKept(info, detectionType, downPos, upPos) ==
    IF detectionType = DetectType_Drag
        THEN [info EXCEPT !.mousePosStart = downPos, !.mousePosEnd = upPos]
    ELSE IF detectionType = DetectType_DoubleClick
        THEN [info EXCEPT !.mousePosStart = upPos, !.mousePosEnd = upPos]
    ELSE info

\* the mouse positions and the position-level floor put on a result
Enrich(info, detectionType, downPos, upPos) ==
    IF detectionType = DetectType_Drag
        THEN [info EXCEPT !.mousePosStart = downPos, !.mousePosEnd = upPos,
                          !.posLevel = IF @ = PosLevel_None THEN PosLevel_MouseDual ELSE @]
    ELSE IF detectionType = DetectType_DoubleClick
        THEN [info EXCEPT !.mousePosStart = upPos, !.mousePosEnd = upPos,
                          !.posLevel = IF @ = PosLevel_None THEN PosLevel_MouseSingle ELSE @]
    ELSE info

\* the handler's effect on the detector, the pipeline and the clipboard
ProcessMouseEventBody(ev, currentTime, activeWindow) ==
    /\ currentTime >= now
    /\ now' = currentTime
    \* gesture tracking
    /\ IF ev.code = BTN_LEFT /\ ev.value = 1
          THEN /\ lastMouseDownTime' = currentTime
               /\ lastMouseDownPos' = ev.pos
               /\ UNCHANGED <<lastMouseUpPos, lastMouseUpTime, lastLastMouseUpPos,
                              isLastValidClick>>
       ELSE IF ev.code = BTN_LEFT /\ ev.value = 0
          THEN /\ isLastValidClick' = IF is_selection_passive_mode
                                         THEN isLastValidClick
                                         ELSE IsCurrentValidClick(currentTime)
               /\ lastLastMouseUpPos' = lastMouseUpPos
               /\ lastMouseUpTime' = currentTime
               /\ lastMouseUpPos' = ev.pos
               /\ UNCHANGED <<lastMouseDownPos, lastMouseDownTime>>
       ELSE UNCHANGED gestureVars
    \* retrieval and delivery
    /\ LET detectionType == DetectionType(ev, currentTime)
           seen == [NoLast EXCEPT !.op = "ProcessMouseEvent", !.ev = ev,
                                  !.passive = is_selection_passive_mode,
                                  !.detect = detectionType,
                                  !.deref = IF ev.code = BTN_LEFT /\ ev.value \in {0, 1}
                                               THEN currentInstance ELSE "none",
                                  !.action = MouseTypeStr(ev)]
       IN IF detectionType # DetectType_None
             THEN \E m \in GetSelectedText(activeWindow) :
                     /\ is_processing' = m.is_processing
                     /\ clipboard' = m.clipboard
                     /\ last' = [seen EXCEPT
                                    !.window = activeWindow,
                                    !.invoked = TRUE,
                                    !.hasResult = (m.ret /\ m.info.text # NoText),
                                    !.backend = m.info,
                                    !.result =
                                        IF m.ret /\ m.info.text # NoText
                                            THEN Enrich(m.info, detectionType,
                                                        lastMouseDownPos, ev.pos)
                                            ELSE ClearedInfo]
             ELSE /\ last' = seen
                  /\ UNCHANGED <<is_processing, clipboard>>
    /\ UNCHANGED <<configVars, is_selection_passive_mode, call>>

\* the handler run for one event on its own
ProcessMouseEvent(ev, currentTime, activeWindow) ==
    /\ ProcessMouseEventBody(ev, currentTime, activeWindow)
    /\ UNCHANGED lifeVars

\* a session that starts with an empty clipboard
InitDetect == Init /\ clipboard = NoText

ClockReadings(offsets) == {StartTime + o : o \in offsets}

LeftEvents(positions) ==
    {[code |-> BTN_LEFT, value |-> v, pos |-> p] : v \in {0, 1}, p \in positions}

OtherEvents(positions) ==
    {[code |-> c, value |-> v, pos |-> p] :
        c \in {BTN_RIGHT, BTN_MIDDLE}, v \in {0, 1}, p \in positions}
    \cup {[code |-> c, value |-> v, pos |-> p] :
        c \in {REL_WHEEL, REL_HWHEEL, REL_X, REL_Y}, v \in {-1, 1}, p \in positions}

\* the active window of a detector run: none, or a window named ""
DetectWindows == {0, 2}

\* left-button gestures around the drag thresholds (8 px, 8000 ms)
DragPositions == { Point(0, 0), Point(7, 0), Point(8, 0), Point(50, 50) }
DragTimeOffsets == {0, 100, 8000, 8001}

NextDrag ==
    \E ev \in LeftEvents(DragPositions), t \in ClockReadings(DragTimeOffsets),
       w \in DetectWindows : ProcessMouseEvent(ev, t, w)

SpecDrag == InitDetect /\ [][NextDrag]_vars

\* left-button clicks around the double-click thresholds (3 px, 500 ms)
ClickPositions == { Point(100, 100), Point(101, 100), Point(104, 100), Point(110, 100) }
ClickTimeOffsets == {0, 50, 200, 250, 550, 551}

NextClick ==
    \E ev \in LeftEvents(ClickPositions), t \in ClockReadings(ClickTimeOffsets),
       w \in DetectWindows : ProcessMouseEvent(ev, t, w)

SpecClick == InitDetect /\ [][NextClick]_vars

\* every kind of mouse event, with passive mode switched on and off and
\* retrieval on demand
PassivePositions == { Point(0, 0), Point(8, 0) }
PassiveTimeOffsets == {0, 100}

NextPassive ==
    \/ \E ev \in LeftEvents(PassivePositions) \cup OtherEvents(PassivePositions),
          t \in ClockReadings(PassiveTimeOffsets), w \in DetectWindows :
            ProcessMouseEvent(ev, t, w)
    \/ \E b \in BOOLEAN : SetSelectionPassiveMode(b)
    \/ \E w \in DetectWindows : GetCurrentSelection(w)

SpecPassive == InitDetect /\ [][NextPassive]_vars

(***************************************************************************)
(* Lifecycle: Start, Stop, the monitoring thread and the three channels.   *)
(* A channel is a Napi::ThreadSafeFunction created with one thread         *)
(* reference.  Calls queued on it run on the JavaScript thread, one per    *)
(* turn.  Release() gives up the reference; the calls still queued are run *)
(* and then the finalizer given at creation runs, all on later turns of    *)
(* the JavaScript thread.  A handle keeps naming its channel after         *)
(* Release().                                                              *)
(***************************************************************************)

\* bounds: channels ever created, raw input events ever read (by a session
\* that delivers, by sessions started and stopped), calls queued on one
\* channel, devices a scan of /dev/input adds
MaxChannels == 7
MaxRawEvents == 3
MaxLifecycleEvents == 1
MaxQueue == 2
MaxNewDevices == 1

\* the maxQueueSize Start gives each channel; 0 is "no limit"
DEFAULT_MOUSE_EVENT_QUEUE_SIZE == 512
DEFAULT_KEYBOARD_EVENT_QUEUE_SIZE == 128
MaxQueueSize(kind) ==
    IF kind = "mouse" THEN DEFAULT_MOUSE_EVENT_QUEUE_SIZE
    ELSE IF kind = "keyboard" THEN DEFAULT_KEYBOARD_EVENT_QUEUE_SIZE
    ELSE 0

\* Napi::ThreadSafeFunction::New(env, callback, name, maxQueueSize, 1, finalizer);
\* releases counts the calls of Release() made on the channel
NewChannel(kind) ==
    [kind |-> kind, state |-> "open", queue |-> <<>>, releases |-> 0]

\* tsfn.Release() through handle h: an empty handle and a channel already
\* released are left as they are
ReleaseChannel(chs, h) ==
    IF h \in 1..Len(chs)
        THEN [chs EXCEPT ![h].state = IF @ = "open" THEN "released" ELSE @,
                         ![h].releases = @ + 1]
        ELSE chs

\* mouse_tsfn.Release(); keyboard_tsfn.Release(); tsfn.Release();
ReleaseAll(chs, m, k, t) == ReleaseChannel(ReleaseChannel(ReleaseChannel(chs, m), k), t)

\* the channel has no limit, or its queue is below the limit
HasRoom(ch) ==
    MaxQueueSize(ch.kind) = 0 \/ Len(ch.queue) < MaxQueueSize(ch.kind)

\* an enqueue that ignores the limit of the channel
NonBlockingCall_Unbounded(chs, h, item) ==
    IF h \in 1..Len(chs) /\ chs[h].state = "open"
        THEN [chs EXCEPT ![h].queue = Append(@, item)]
        ELSE chs

\* NonBlockingCall through handle h: queued when the channel is open and has
\* room, otherwise the call returns napi_closing or napi_queue_full and the
\* item is not queued
NonBlockingCall(chs, h, item) ==
    IF h \in 1..Len(chs) /\ chs[h].state = "open" /\ HasRoom(chs[h])
        THEN [chs EXCEPT ![h].queue = Append(@, item)]
        ELSE chs

\* the thread object is joinable from its creation until it is joined
Joinable == event_thread # "none"

\* the monitoring thread has not left MouseKeyboardEventThreadProc
ThreadAlive == event_thread \in {"created", "polling"}

\* SelectionHook::InitializeInputDevices: epoll_create1 may fail, opendir
\* may fail, otherwise the scan appends the devices it could set up to
\* input_devices and fails when input_devices is empty afterwards.  The
\* descriptor held in epoll_fd before the call is overwritten, not closed.
InitializeInputDevices(outcome, newDevices) ==
    IF outcome = "epoll_create1 fails"
        THEN [ok |-> FALSE, input_devices |-> input_devices, epoll_fd |-> -1,
              epolls_open |-> epolls_open]
    ELSE IF outcome = "opendir fails"
        THEN [ok |-> FALSE, input_devices |-> input_devices, epoll_fd |-> -1,
              epolls_open |-> epolls_open]
    ELSE IF input_devices + newDevices = 0
        THEN [ok |-> FALSE, input_devices |-> 0, epoll_fd |-> -1,
              epolls_open |-> epolls_open]
    ELSE [ok |-> TRUE, input_devices |-> input_devices + newDevices,
          epoll_fd |-> epolls_open, epolls_open |-> epolls_open + 1]

InitOutcomes == {"epoll_create1 fails", "opendir fails", "scanned"}

\* SelectionHook::CleanupInputDevices applied to the state d of the devices
CleanupInputDevices(d) ==
    [d EXCEPT !.input_devices = 0,
              !.epoll_fd = -1,
              !.epolls_open = IF d.epoll_fd >= 0 THEN @ - 1 ELSE @]

\* a test of the running flag that never finds it set
AlreadyRunning_Never == FALSE

\* Start: if (running)
AlreadyRunning == running

\* a call of Start that raises msg before it has changed anything
StartRejected(msg) ==
    /\ last' = [NoLast EXCEPT !.op = "Start", !.error = msg]
    /\ UNCHANGED <<running, mouse_keyboard_running, tsfn, mouse_tsfn, keyboard_tsfn,
                   channels, event_thread, input_devices, epoll_fd, epolls_open>>

\* SelectionHook::Start.  threadOutcome is what std::thread's constructor
\* does when StartMouseKeyboardEventThread reaches it.
Start(isFunction, initOutcome, newDevices, threadOutcome) ==
    /\ mainPc = "idle"
    /\ IF ~isFunction
          THEN StartRejected("Function expected as first argument")
       ELSE IF AlreadyRunning
          THEN StartRejected("Text selection hook is already running")
       ELSE /\ Len(channels) + (IF mouse_keyboard_running THEN 1 ELSE 3) <= MaxChannels
            /\ LET withText == Append(channels, NewChannel("text"))
                   textH == Len(withText)
                   created == IF mouse_keyboard_running
                                 THEN withText
                                 ELSE withText \o <<NewChannel("mouse"),
                                                    NewChannel("keyboard")>>
                   mouseH == IF mouse_keyboard_running THEN mouse_tsfn ELSE textH + 1
                   keyboardH == IF mouse_keyboard_running THEN keyboard_tsfn ELSE textH + 2
                   init == InitializeInputDevices(initOutcome, newDevices)
                   cleaned == CleanupInputDevices(init)
               IN /\ tsfn' = textH
                  /\ mouse_tsfn' = mouseH
                  /\ keyboard_tsfn' = keyboardH
                  /\ IF ~init.ok
                        THEN /\ mouse_keyboard_running' = FALSE
                             /\ channels' = ReleaseAll(created, mouseH, keyboardH, textH)
                             /\ input_devices' = init.input_devices
                             /\ epoll_fd' = init.epoll_fd
                             /\ epolls_open' = init.epolls_open
                             /\ last' = [NoLast EXCEPT
                                            !.op = "Start",
                                            !.error = "Failed to initialize input devices"]
                             /\ UNCHANGED <<running, event_thread>>
                     ELSE IF ~Joinable /\ threadOutcome = "throws"
                        THEN /\ mouse_keyboard_running' = FALSE
                             /\ channels' = ReleaseAll(created, mouseH, keyboardH, textH)
                             /\ input_devices' = cleaned.input_devices
                             /\ epoll_fd' = cleaned.epoll_fd
                             /\ epolls_open' = cleaned.epolls_open
                             /\ last' = [NoLast EXCEPT
                                            !.op = "Start",
                                            !.error =
                                              "Failed to start mouse keyboard event thread"]
                             /\ UNCHANGED <<running, event_thread>>
                     ELSE /\ mouse_keyboard_running' = TRUE
                          /\ channels' = created
                          /\ input_devices' = init.input_devices
                          /\ epoll_fd' = init.epoll_fd
                          /\ epolls_open' = init.epolls_open
                          /\ event_thread' = IF Joinable THEN event_thread ELSE "created"
                          /\ running' = TRUE
                          /\ last' = [NoLast EXCEPT !.op = "Start"]
    /\ stopped' = IF last'.error = "" THEN FALSE ELSE stopped
    /\ sessionStart' = IF last'.error = "" THEN nRaw ELSE sessionStart
    /\ UNCHANGED <<is_processing, clipboard, configVars, is_selection_passive_mode, call,
                   now, gestureVars, current_mouse_pos, is_enabled_mouse_move_event,
                   mainPc, log, nRaw>>
    /\ UNCHANGED <<xi_mouse_pos, currentInstance, xi_delta_sum>>

\* a test of the running flag that never finds it clear
NotRunning_Never == FALSE

\* Stop: if (!running)
NotRunning == ~running

\* SelectionHook::Stop up to the return of StopMouseKeyboardEventThread's
\* join(), or to its own return when there is nothing to join
Stop ==
    /\ mainPc = "idle"
    /\ IF NotRunning
          THEN /\ last' = [NoLast EXCEPT !.op = "Stop"]
               /\ UNCHANGED <<running, mouse_keyboard_running, channels, mainPc, stopped>>
       ELSE /\ running' = FALSE
            /\ mouse_keyboard_running' = FALSE
            /\ IF Joinable
                  THEN /\ channels' = ReleaseChannel(channels, tsfn)
                       /\ mainPc' = "Stop joins"
                       /\ last' = [NoLast EXCEPT !.op = "Stop", !.returned = FALSE]
                       /\ UNCHANGED stopped
                  ELSE /\ channels' = ReleaseAll(ReleaseChannel(channels, tsfn),
                                                 mouse_tsfn, keyboard_tsfn, 0)
                       /\ last' = [NoLast EXCEPT !.op = "Stop"]
                       /\ stopped' = TRUE
                       /\ UNCHANGED mainPc
    /\ UNCHANGED <<is_processing, clipboard, configVars, is_selection_passive_mode, call,
                   now, gestureVars, tsfn, mouse_tsfn, keyboard_tsfn, event_thread,
                   input_devices, epoll_fd, epolls_open, current_mouse_pos,
                   is_enabled_mouse_move_event, log, nRaw>>
    /\ UNCHANGED <<xi_mouse_pos, currentInstance, sessionStart, xi_delta_sum>>

\* SelectionHook::Stop from the return of join() to its own return
StopJoined ==
    /\ mainPc = "Stop joins"
    /\ event_thread = "exited"
    /\ event_thread' = "none"
    /\ channels' = ReleaseAll(channels, mouse_tsfn, keyboard_tsfn, 0)
    /\ mainPc' = "idle"
    /\ last' = [NoLast EXCEPT !.op = "Stop"]
    /\ stopped' = TRUE
    /\ UNCHANGED <<is_processing, clipboard, configVars, is_selection_passive_mode, call,
                   now, gestureVars, running, mouse_keyboard_running, tsfn, mouse_tsfn,
                   keyboard_tsfn, input_devices, epoll_fd, epolls_open, current_mouse_pos,
                   is_enabled_mouse_move_event, log, nRaw>>
    /\ UNCHANGED <<xi_mouse_pos, currentInstance, sessionStart, xi_delta_sum>>

\* MouseKeyboardEventThreadProc: the test made before the loop
ThreadEnter ==
    /\ event_thread = "created"
    /\ event_thread' = IF input_devices = 0 \/ epoll_fd < 0 THEN "exited" ELSE "polling"
    /\ last' = [NoLast EXCEPT !.op = "ThreadEnter"]
    /\ UNCHANGED <<is_processing, clipboard, configVars, is_selection_passive_mode, call,
                   now, gestureVars, running, mouse_keyboard_running, tsfn,
                   mouse_tsfn, keyboard_tsfn, channels, input_devices, epoll_fd,
                   epolls_open, current_mouse_pos, is_enabled_mouse_move_event, mainPc,
                   log, nRaw, stopped>>
    /\ UNCHANGED <<xi_mouse_pos, currentInstance, sessionStart, xi_delta_sum>>

\* a thread that is held up by a full mouse channel, as a blocking enqueue
\* would hold it, and so cannot reach the test of its loop
ThreadExit_BlockedWhenFull ==
    /\ event_thread = "polling"
    /\ ~mouse_keyboard_running
    /\ mouse_tsfn \in 1..Len(channels) => HasRoom(channels[mouse_tsfn])
    /\ event_thread' = "exited"
    /\ last' = [NoLast EXCEPT !.op = "ThreadExit"]
    /\ UNCHANGED <<is_processing, clipboard, configVars, is_selection_passive_mode, call,
                   now, gestureVars, running, mouse_keyboard_running, tsfn,
                   mouse_tsfn, keyboard_tsfn, channels, input_devices, epoll_fd,
                   epolls_open, current_mouse_pos, is_enabled_mouse_move_event, mainPc,
                   log, nRaw, stopped>>
    /\ UNCHANGED <<xi_mouse_pos, currentInstance, sessionStart, xi_delta_sum>>

\* MouseKeyboardEventThreadProc: while (mouse_keyboard_running) found false
ThreadExit ==
    /\ event_thread = "polling"
    /\ ~mouse_keyboard_running
    /\ event_thread' = "exited"
    /\ last' = [NoLast EXCEPT !.op = "ThreadExit"]
    /\ UNCHANGED <<is_processing, clipboard, configVars, is_selection_passive_mode, call,
                   now, gestureVars, running, mouse_keyboard_running, tsfn,
                   mouse_tsfn, keyboard_tsfn, channels, input_devices, epoll_fd,
                   epolls_open, current_mouse_pos, is_enabled_mouse_move_event, mainPc,
                   log, nRaw, stopped>>
    /\ UNCHANGED <<xi_mouse_pos, currentInstance, sessionStart, xi_delta_sum>>

\* the raw events of a mouse: button events and relative motion
EV_KEY == "EV_KEY"
EV_REL == "EV_REL"
RawEvents ==
    {[type |-> EV_KEY, code |-> BTN_LEFT, value |-> v] : v \in {0, 1, 2}}
    \cup {[type |-> EV_REL, code |-> REL_X, value |-> MIN_DRAG_DISTANCE]}

\* the MouseEventContext queued for a raw event; seq numbers the raw events
MouseEventContext(raw, pos, seq) ==
    [code |-> raw.code, value |-> raw.value, pos |-> pos, seq |-> seq]

\* a test of the move toggle that always finds it on
MoveReported_Always == TRUE

\* ProcessLibevdevEvent: if (is_enabled_mouse_move_event)
MoveReported == is_enabled_mouse_move_event

\* struct InputDevice: the capabilities found when the device was set up
MouseDevice == [is_mouse |-> TRUE, is_keyboard |-> FALSE]
KeyboardDevice == [is_mouse |-> FALSE, is_keyboard |-> TRUE]
ComboDevice == [is_mouse |-> TRUE, is_keyboard |-> TRUE]

\* the KeyboardEventContext queued for a raw event
KeyboardEventContext(raw, seq) == [code |-> raw.code, value |-> raw.value, seq |-> seq]

\* SelectionHook::ProcessLibevdevEvent for an event read from device, on the
\* monitoring thread; the thread runs it for every event of the batch that
\* epoll_wait returned, without testing mouse_keyboard_running in between
ProcessLibevdevEventFrom(raw, device) ==
    /\ event_thread = "polling"
    /\ nRaw' = nRaw + 1
    /\ LET mouse == device.is_mouse /\ mouse_tsfn # 0
           moved == IF mouse /\ raw.type = EV_REL /\ raw.code = REL_X
                       THEN [current_mouse_pos EXCEPT !.x = @ + raw.value]
                    ELSE IF mouse /\ raw.type = EV_REL /\ raw.code = REL_Y
                       THEN [current_mouse_pos EXCEPT !.y = @ + raw.value]
                    ELSE current_mouse_pos
           queued == \/ raw.type = EV_KEY /\ raw.code \in {BTN_LEFT, BTN_RIGHT, BTN_MIDDLE}
                     \/ raw.type = EV_REL /\ raw.code \in {REL_X, REL_Y}
                           /\ MoveReported
                     \/ raw.type = EV_REL /\ raw.code \in {REL_WHEEL, REL_HWHEEL}
           withMouse == IF mouse /\ queued
                           THEN NonBlockingCall(channels, mouse_tsfn,
                                                MouseEventContext(raw, moved, nRaw + 1))
                           ELSE channels
           withKey == IF device.is_keyboard /\ keyboard_tsfn # 0 /\ raw.type = EV_KEY
                         THEN NonBlockingCall(withMouse, keyboard_tsfn,
                                              KeyboardEventContext(raw, nRaw + 1))
                         ELSE withMouse
       IN /\ current_mouse_pos' = moved
          /\ channels' = withKey
    /\ last' = [NoLast EXCEPT !.op = "ProcessLibevdevEvent",
                              !.ev = [code |-> raw.code, value |-> raw.value,
                                      pos |-> current_mouse_pos']]
    /\ UNCHANGED <<is_processing, clipboard, configVars, is_selection_passive_mode, call,
                   now, gestureVars, running, mouse_keyboard_running, tsfn,
                   mouse_tsfn, keyboard_tsfn, event_thread, input_devices, epoll_fd,
                   epolls_open, is_enabled_mouse_move_event, mainPc, log, stopped>>
    /\ UNCHANGED <<xi_mouse_pos, currentInstance, sessionStart, xi_delta_sum>>

\* ProcessLibevdevEvent for an event of a mouse read in an iteration of the
\* loop that found mouse_keyboard_running set, the consumer keeping up with
\* the thread
ProcessLibevdevEvent(raw) ==
    /\ mouse_keyboard_running
    /\ mouse_tsfn \in 1..Len(channels) => Len(channels[mouse_tsfn].queue) < MaxQueue
    /\ ProcessLibevdevEventFrom(raw, MouseDevice)

\* a handler that hands the text-selection object to the callback itself,
\* ahead of the mouse-event, instead of queueing it on the text channel
AfterMouseEvent_TextFirst(lg, chs, ev, action, hasResult) ==
    [log |-> (IF hasResult
                 THEN Append(lg, [type |-> "text-selection", action |-> "", seq |-> ev.seq])
                 ELSE lg)
             \o (IF action # ""
                    THEN <<[type |-> "mouse-event", action |-> action, seq |-> ev.seq]>>
                    ELSE <<>>),
     channels |-> chs]

\* a handler that queues a text-selection call whether or not the retrieval
\* produced a text
AfterMouseEvent_AlwaysText(lg, chs, ev, action, hasResult) ==
    [log |-> IF action # ""
                THEN Append(lg, [type |-> "mouse-event", action |-> action, seq |-> ev.seq])
                ELSE lg,
     channels |-> NonBlockingCall(chs, tsfn, [seq |-> ev.seq])]

\* SelectionHook::EnableMouseMoveEvent
EnableMouseMoveEvent ==
    /\ mainPc = "idle"
    /\ is_enabled_mouse_move_event' = TRUE
    /\ last' = [NoLast EXCEPT !.op = "EnableMouseMoveEvent"]
    /\ UNCHANGED <<is_processing, clipboard, configVars, is_selection_passive_mode, call,
                   now, gestureVars, running, mouse_keyboard_running, tsfn, mouse_tsfn,
                   keyboard_tsfn, channels, event_thread, input_devices, epoll_fd,
                   epolls_open, current_mouse_pos, mainPc, log, nRaw, stopped>>
    /\ UNCHANGED <<xi_mouse_pos, currentInstance, sessionStart, xi_delta_sum>>

\* SelectionHook::DisableMouseMoveEvent
DisableMouseMoveEvent ==
    /\ mainPc = "idle"
    /\ is_enabled_mouse_move_event' = FALSE
    /\ last' = [NoLast EXCEPT !.op = "DisableMouseMoveEvent"]
    /\ UNCHANGED <<is_processing, clipboard, configVars, is_selection_passive_mode, call,
                   now, gestureVars, running, mouse_keyboard_running, tsfn, mouse_tsfn,
                   keyboard_tsfn, channels, event_thread, input_devices, epoll_fd,
                   epolls_open, current_mouse_pos, mainPc, log, nRaw, stopped>>
    /\ UNCHANGED <<xi_mouse_pos, currentInstance, sessionStart, xi_delta_sum>>

\* the consumer's view of a handled mouse event: the text-selection call is
\* queued on the text channel, then the mouse-event is handed to the
\* callback at once
AfterMouseEvent(lg, chs, ev, action, hasResult) ==
    [log |-> IF action # ""
                THEN Append(lg, [type |-> "mouse-event", action |-> action, seq |-> ev.seq])
                ELSE lg,
     channels |-> IF hasResult
                     THEN NonBlockingCall(chs, tsfn, [seq |-> ev.seq])
                     ELSE chs]

\* a turn of the JavaScript thread that runs the call at the head of mouse
\* channel c: ProcessMouseEvent
DispatchMouse(c, activeWindow) ==
    /\ mainPc = "idle"
    /\ c \in 1..Len(channels)
    /\ channels[c].kind = "mouse"
    /\ channels[c].state # "finalized"
    /\ channels[c].queue # <<>>
    /\ IF currentInstance = "nullptr"
          THEN \* if (!pMouseEvent || !currentInstance) { delete pMouseEvent; return; }
               /\ channels' = [channels EXCEPT ![c].queue = Tail(@)]
               /\ last' = [NoLast EXCEPT !.op = "ProcessMouseEvent",
                                         !.ev = [code |-> Head(channels[c].queue).code,
                                                 value |-> Head(channels[c].queue).value,
                                                 pos |-> Head(channels[c].queue).pos]]
               /\ UNCHANGED <<is_processing, clipboard, configVars,
                              is_selection_passive_mode, call, now, gestureVars, log>>
          ELSE /\ ProcessMouseEventBody(Head(channels[c].queue), now, activeWindow)
               /\ LET popped == [channels EXCEPT ![c].queue = Tail(@)]
                      after == AfterMouseEvent(log, popped, Head(channels[c].queue),
                                               last'.action, last'.hasResult)
                  IN /\ log' = after.log
                     /\ channels' = after.channels
    /\ UNCHANGED <<running, mouse_keyboard_running, tsfn, mouse_tsfn, keyboard_tsfn,
                   event_thread, input_devices, epoll_fd, epolls_open, current_mouse_pos,
                   is_enabled_mouse_move_event, mainPc, nRaw, stopped>>
    /\ UNCHANGED <<xi_mouse_pos, currentInstance, sessionStart, xi_delta_sum>>

\* a turn of the JavaScript thread that runs the call at the head of text
\* channel c: the lambda calls currentInstance->CreateSelectionResultObject
\* and hands the object to the callback; through a null currentInstance the
\* call is undefined, the object is delivered or the process ends
DispatchText(c) ==
    /\ mainPc = "idle"
    /\ c \in 1..Len(channels)
    /\ channels[c].kind = "text"
    /\ channels[c].state # "finalized"
    /\ channels[c].queue # <<>>
    /\ \E delivered \in (IF currentInstance = "this" THEN {TRUE} ELSE BOOLEAN) :
          log' = IF delivered
                    THEN Append(log, [type |-> "text-selection", action |-> "",
                                      seq |-> Head(channels[c].queue).seq])
                    ELSE log
    /\ channels' = [channels EXCEPT ![c].queue = Tail(@)]
    /\ last' = [NoLast EXCEPT !.op = "DispatchText", !.deref = currentInstance]
    /\ UNCHANGED <<is_processing, clipboard, configVars, is_selection_passive_mode, call,
                   now, gestureVars, running, mouse_keyboard_running, tsfn, mouse_tsfn,
                   keyboard_tsfn, event_thread, input_devices, epoll_fd, epolls_open,
                   current_mouse_pos, is_enabled_mouse_move_event, mainPc, nRaw, stopped>>
    /\ UNCHANGED <<xi_mouse_pos, currentInstance, sessionStart, xi_delta_sum>>

\* a turn of the JavaScript thread that finalizes released channel c: the
\* finalizer of a text channel is running = false, that of a mouse or
\* keyboard channel is mouse_keyboard_running = false
Finalize(c) ==
    /\ mainPc = "idle"
    /\ c \in 1..Len(channels)
    /\ channels[c].state = "released"
    /\ channels[c].queue = <<>>
    /\ channels' = [channels EXCEPT ![c].state = "finalized"]
    /\ running' = IF channels[c].kind = "text" THEN FALSE ELSE running
    /\ mouse_keyboard_running' =
          IF channels[c].kind \in {"mouse", "keyboard"} THEN FALSE ELSE mouse_keyboard_running
    /\ last' = [NoLast EXCEPT !.op = "Finalize"]
    /\ UNCHANGED <<is_processing, clipboard, configVars, is_selection_passive_mode, call,
                   now, gestureVars, tsfn, mouse_tsfn, keyboard_tsfn, event_thread,
                   input_devices, epoll_fd, epolls_open, current_mouse_pos,
                   is_enabled_mouse_move_event, mainPc, log, nRaw, stopped>>
    /\ UNCHANGED <<xi_mouse_pos, currentInstance, sessionStart, xi_delta_sum>>

\* a turn of the JavaScript thread that runs the call at the head of
\* keyboard channel c: ProcessKeyboardEvent hands a keyboard-event to the
\* callback
DispatchKeyboard(c) ==
    /\ mainPc = "idle"
    /\ c \in 1..Len(channels)
    /\ channels[c].kind = "keyboard"
    /\ channels[c].state # "finalized"
    /\ channels[c].queue # <<>>
    /\ log' = Append(log, [type |-> "keyboard-event",
                           action |-> IF Head(channels[c].queue).value = 0
                                         THEN "key-up"
                                      ELSE IF Head(channels[c].queue).value \in {1, 2}
                                         THEN "key-down"
                                      ELSE "unknown",
                           seq |-> Head(channels[c].queue).seq])
    /\ channels' = [channels EXCEPT ![c].queue = Tail(@)]
    /\ last' = [NoLast EXCEPT !.op = "ProcessKeyboardEvent"]
    /\ UNCHANGED <<is_processing, clipboard, configVars, is_selection_passive_mode, call,
                   now, gestureVars, running, mouse_keyboard_running, tsfn, mouse_tsfn,
                   keyboard_tsfn, event_thread, input_devices, epoll_fd, epolls_open,
                   current_mouse_pos, is_enabled_mouse_move_event, mainPc, nRaw, stopped>>
    /\ UNCHANGED <<xi_mouse_pos, currentInstance, sessionStart, xi_delta_sum>>

\* MouseKeyboardEventThreadProc: epoll_wait fails with an error other than
\* EINTR and the thread breaks out of its loop
ThreadBreak ==
    /\ event_thread = "polling"
    /\ event_thread' = "exited"
    /\ last' = [NoLast EXCEPT !.op = "ThreadBreak"]
    /\ UNCHANGED <<is_processing, clipboard, configVars, is_selection_passive_mode, call,
                   now, gestureVars, running, mouse_keyboard_running, tsfn,
                   mouse_tsfn, keyboard_tsfn, channels, input_devices, epoll_fd,
                   epolls_open, current_mouse_pos, is_enabled_mouse_move_event, mainPc,
                   log, nRaw, stopped>>
    /\ UNCHANGED <<xi_mouse_pos, currentInstance, sessionStart, xi_delta_sum>>

\* ~SelectionHook from the return of StopMouseKeyboardEventThread to its
\* own return, applied to the channels chs: CleanupInputDevices, the two
\* Release() calls, currentInstance = nullptr
DestroyRest(chs) ==
    /\ LET cleaned == CleanupInputDevices([input_devices |-> input_devices,
                                           epoll_fd |-> epoll_fd,
                                           epolls_open |-> epolls_open])
       IN /\ input_devices' = cleaned.input_devices
          /\ epoll_fd' = cleaned.epoll_fd
          /\ epolls_open' = cleaned.epolls_open
    /\ channels' = ReleaseAll(chs, mouse_tsfn, keyboard_tsfn, 0)
    /\ currentInstance' = "nullptr"
    /\ event_thread' = "none"
    /\ mainPc' = "idle"

\* SelectionHook::~SelectionHook up to the return of join(), or to its own
\* return when there is nothing to join
Destroy ==
    /\ mainPc = "idle"
    /\ currentInstance = "this"
    /\ running' = FALSE
    /\ mouse_keyboard_running' = FALSE
    /\ LET released == IF running THEN ReleaseChannel(channels, tsfn) ELSE channels
       IN IF Joinable
             THEN /\ channels' = released
                  /\ mainPc' = "~SelectionHook joins"
                  /\ last' = [NoLast EXCEPT !.op = "~SelectionHook", !.returned = FALSE]
                  /\ UNCHANGED <<event_thread, input_devices, epoll_fd, epolls_open,
                                 currentInstance>>
             ELSE /\ DestroyRest(released)
                  /\ last' = [NoLast EXCEPT !.op = "~SelectionHook"]
    /\ UNCHANGED <<is_processing, clipboard, configVars, is_selection_passive_mode, call,
                   now, gestureVars, tsfn, mouse_tsfn, keyboard_tsfn, current_mouse_pos,
                   is_enabled_mouse_move_event, log, nRaw, stopped>>
    /\ UNCHANGED <<xi_mouse_pos, sessionStart, xi_delta_sum>>

\* ~SelectionHook from the return of join() to its own return
DestroyJoined ==
    /\ mainPc = "~SelectionHook joins"
    /\ event_thread = "exited"
    /\ DestroyRest(channels)
    /\ last' = [NoLast EXCEPT !.op = "~SelectionHook"]
    /\ UNCHANGED <<is_processing, clipboard, configVars, is_selection_passive_mode, call,
                   now, gestureVars, running, mouse_keyboard_running, tsfn, mouse_tsfn,
                   keyboard_tsfn, current_mouse_pos, is_enabled_mouse_move_event, log,
                   nRaw, stopped>>
    /\ UNCHANGED <<xi_mouse_pos, sessionStart, xi_delta_sum>>

ThreadOutcomes == {"created", "throws"}

\* sessions started and stopped, with presses of the left button as input
NextLifecycle ==
    \/ \E isFunction \in BOOLEAN, initOutcome \in InitOutcomes,
          newDevices \in 0..MaxNewDevices, threadOutcome \in ThreadOutcomes :
            Start(isFunction, initOutcome, newDevices, threadOutcome)
    \/ Stop
    \/ StopJoined
    \/ ThreadEnter
    \/ ThreadExit
    \/ \E raw \in {r \in RawEvents : r.code = BTN_LEFT /\ r.value = 1} :
          nRaw < MaxLifecycleEvents /\ ProcessLibevdevEvent(raw)
    \/ \E c \in 1..MaxChannels : DispatchMouse(c, 0)
    \/ \E c \in 1..MaxChannels : Finalize(c)

SpecLifecycle == InitDetect /\ [][NextLifecycle]_vars

\* one session delivering events: every raw event of RawEvents as input
NextDeliver ==
    \/ \E initOutcome \in InitOutcomes, threadOutcome \in ThreadOutcomes :
          Start(TRUE, initOutcome, MaxNewDevices, threadOutcome)
    \/ ThreadEnter
    \/ \E raw \in RawEvents : nRaw < MaxRawEvents /\ ProcessLibevdevEvent(raw)
    \/ \E c \in 1..MaxChannels, w \in DetectWindows : DispatchMouse(c, w)
    \/ \E c \in 1..MaxChannels : DispatchText(c)
    \/ \E c \in 1..MaxChannels : Finalize(c)

SpecDeliver == InitDetect /\ [][NextDeliver]_vars

\* one session in which retrievals are triggered by releases and asked for
\* by getCurrentSelection, under a global filter that may reject, while
\* another context may be inside GetSelectedText and hold the guard
\* the raw events of one drag: press, move by MIN_DRAG_DISTANCE, release
DragScript ==
    << [type |-> EV_KEY, code |-> BTN_LEFT, value |-> 1],
       [type |-> EV_REL, code |-> REL_X, value |-> MIN_DRAG_DISTANCE],
       [type |-> EV_KEY, code |-> BTN_LEFT, value |-> 0] >>

NextDegrade ==
    \/ Start(TRUE, "scanned", MaxNewDevices, "created")
    \/ ThreadEnter
    \/ nRaw < Len(DragScript) /\ ProcessLibevdevEvent(DragScript[nRaw + 1])
    \/ \E c \in 1..MaxChannels, w \in DetectWindows : DispatchMouse(c, w)
    \/ \E w \in DetectWindows : GetCurrentSelection(w)
    \/ \E mode \in {FilterMode_Default, FilterMode_IncludeList} :
          SetGlobalFilterMode(mode, <<>>)
    \/ call["c1"].pc = "idle" /\ BeginCall("c1", 2)
    \/ StepCall("c1")

SpecDegrade == InitDetect /\ [][NextDegrade]_vars

\* one session in which a mouse sends button, wheel and motion events while
\* the consumer switches move-event reporting on and off
MaxForwardEvents == 2

ForwardRawEvents ==
    {[type |-> EV_KEY, code |-> c, value |-> v] :
        c \in {BTN_LEFT, BTN_RIGHT, BTN_MIDDLE, BTN_BACK, BTN_FORWARD, BTN_TASK},
        v \in {0, 1}}
    \cup {[type |-> EV_REL, code |-> c, value |-> v] :
        c \in {REL_X, REL_Y, REL_WHEEL, REL_HWHEEL}, v \in {-1, 1}}

NextForward ==
    \/ Start(TRUE, "scanned", MaxNewDevices, "created")
    \/ ThreadEnter
    \/ EnableMouseMoveEvent
    \/ DisableMouseMoveEvent
    \/ \E raw \in ForwardRawEvents :
          nRaw < MaxForwardEvents /\ ProcessLibevdevEvent(raw)
    \/ \E c \in 1..MaxChannels : DispatchMouse(c, 0)

SpecForward == InitDetect /\ [][NextForward]_vars

(***************************************************************************)
(* X11Protocol::ProcessXInput2Event: raw XInput2 events are turned into    *)
(* MouseEventContext records handed to mouse_callback.                     *)
(***************************************************************************)
\* enum class MouseButton
MouseButton_None == -1
MouseButton_Unknown == 99
MouseButton_Left == 0
MouseButton_Middle == 1
MouseButton_Right == 2
MouseButton_Back == 3
MouseButton_Forward == 4
MouseButton_WheelVertical == 0
MouseButton_WheelHorizontal == 1

XI_RawMotion == "XI_RawMotion"
XI_RawButtonPress == "XI_RawButtonPress"
XI_RawButtonRelease == "XI_RawButtonRelease"

\* raw button numbers 0..MaxDetail, raw deltas up to MaxDeltaHalves halves of
\* a unit, tracked positions within MaxXiPos of the origin
MaxDetail == 11
MaxDeltaHalves == 2
MaxXiPos == 1
\* the sum of the raw deltas stays within MaxXiSum half pixels of the origin
MaxXiSum == 2

\* static_cast<int>(d) for the double d = halves / 2: truncation toward zero
TruncHalves(halves) == IF halves >= 0 THEN halves \div 2 ELSE -((-halves) \div 2)

\* wheel flags with the horizontal directions exchanged
WheelFlag_HorizontalSwapped(detail) == IF detail \in {4, 6} THEN 1 ELSE -1

\* the flag (and value) of the wheel cases 4..7
WheelFlag(detail) == IF detail \in {4, 7} THEN 1 ELSE -1

\* ProcessXInput2Event: switch (raw_event->detail), after value and pos were set
XInput2Button(evtype, detail, pos) ==
    LET pressed == IF evtype = XI_RawButtonPress THEN 1 ELSE 0
        key(code, button) ==
            [type |-> EV_KEY, code |-> code, value |-> pressed, pos |-> pos,
             button |-> button, flag |-> 0]
        wheel(code, button) ==
            [type |-> EV_REL, code |-> code, value |-> WheelFlag(detail), pos |-> pos,
             button |-> button, flag |-> WheelFlag(detail)]
    IN CASE detail = 1 -> key(BTN_LEFT, MouseButton_Left)
         [] detail = 2 -> key(BTN_MIDDLE, MouseButton_Middle)
         [] detail = 3 -> key(BTN_RIGHT, MouseButton_Right)
         [] detail \in {4, 5} -> wheel(REL_WHEEL, MouseButton_WheelVertical)
         [] detail \in {6, 7} -> wheel(REL_HWHEEL, MouseButton_WheelHorizontal)
         [] detail = 8 -> key(BTN_BACK, MouseButton_Back)
         [] detail = 9 -> key(BTN_FORWARD, MouseButton_Forward)
         [] OTHER -> key(detail, MouseButton_Unknown)

\* ProcessXInput2Event: case XI_RawMotion, the events handed to mouse_callback
XInput2Motion(dxHalves, dyHalves, pos) ==
    (IF dxHalves # 0
        THEN <<[type |-> EV_REL, code |-> REL_X, value |-> TruncHalves(dxHalves),
                pos |-> pos, button |-> MouseButton_None, flag |-> 0]>>
        ELSE <<>>)
    \o (IF dyHalves # 0
           THEN <<[type |-> EV_REL, code |-> REL_Y, value |-> TruncHalves(dyHalves),
                   pos |-> pos, button |-> MouseButton_None, flag |-> 0]>>
           ELSE <<>>)

\* the XGenericEventCookie data the handler reads
XInput2Cookies ==
    {[evtype |-> t, detail |-> d, dx |-> 0, dy |-> 0] :
        t \in {XI_RawButtonPress, XI_RawButtonRelease}, d \in 0..MaxDetail}
    \cup {[evtype |-> XI_RawMotion, detail |-> 0, dx |-> dx, dy |-> dy] :
        dx \in (-MaxDeltaHalves)..MaxDeltaHalves, dy \in (-MaxDeltaHalves)..MaxDeltaHalves}

\* X11Protocol::ProcessXInput2Event with mouse_callback set (hasCallback) or
\* null; last.out is what mouse_callback was called with
ProcessXInput2Event(cookie, hasCallback) ==
    /\ LET moved == IF cookie.evtype = XI_RawMotion /\ hasCallback
                       THEN Point(xi_mouse_pos.x + TruncHalves(cookie.dx),
                                  xi_mouse_pos.y + TruncHalves(cookie.dy))
                       ELSE xi_mouse_pos
           summed == IF cookie.evtype = XI_RawMotion /\ hasCallback
                        THEN Point(xi_delta_sum.x + cookie.dx, xi_delta_sum.y + cookie.dy)
                        ELSE xi_delta_sum
       IN /\ moved.x \in (-MaxXiPos)..MaxXiPos
          /\ moved.y \in (-MaxXiPos)..MaxXiPos
          /\ summed.x \in (-MaxXiSum)..MaxXiSum
          /\ summed.y \in (-MaxXiSum)..MaxXiSum
          /\ xi_mouse_pos' = moved
          /\ xi_delta_sum' = summed
          /\ last' = [NoLast EXCEPT
                         !.op = "ProcessXInput2Event",
                         !.cookie = cookie,
                         !.invoked = hasCallback,
                         !.out = IF ~hasCallback THEN <<>>
                                 ELSE IF cookie.evtype = XI_RawMotion
                                    THEN XInput2Motion(cookie.dx, cookie.dy, moved)
                                 ELSE <<XInput2Button(cookie.evtype, cookie.detail,
                                                      xi_mouse_pos)>>]
    /\ UNCHANGED <<is_processing, clipboard, configVars, is_selection_passive_mode, call,
                   now, gestureVars, running, mouse_keyboard_running, tsfn, mouse_tsfn,
                   keyboard_tsfn, channels, event_thread, input_devices, epoll_fd,
                   epolls_open, current_mouse_pos, is_enabled_mouse_move_event, mainPc,
                   log, nRaw, stopped, currentInstance, sessionStart>>

NextXInput2 ==
    \E cookie \in XInput2Cookies, hasCallback \in BOOLEAN :
        ProcessXInput2Event(cookie, hasCallback)

SpecXInput2 == InitDetect /\ [][NextXInput2]_vars

(***************************************************************************)
(* Backend selection in the constructor.                                   *)
(***************************************************************************)
\* enum class DisplayProtocol
DisplayProtocol_Unknown == 0
DisplayProtocol_X11 == 1
DisplayProtocol_Wayland == 2

\* what std::getenv gives for a variable: a null pointer (set is FALSE) or
\* a string of at most MaxEnvLen characters
MaxEnvLen == 2
EnvChars == {":", "0"}

RECURSIVE EnvStrings(_)
EnvStrings(n) ==
    IF n = 0 THEN {<<>>}
    ELSE EnvStrings(n - 1) \cup {Append(t, c) : t \in EnvStrings(n - 1), c \in EnvChars}

EnvValues ==
    {[set |-> FALSE, str |-> <<>>]}
    \cup {[set |-> TRUE, str |-> t] : t \in EnvStrings(MaxEnvLen)}

\* a detection that looks at DISPLAY first
DetectDisplayProtocol_X11First(wayland_display, x11_display) ==
    IF x11_display.set /\ Len(x11_display.str) > 0 THEN DisplayProtocol_X11
    ELSE IF wayland_display.set /\ Len(wayland_display.str) > 0 THEN DisplayProtocol_Wayland
    ELSE DisplayProtocol_X11

\* DetectDisplayProtocol, given getenv("WAYLAND_DISPLAY") and getenv("DISPLAY")
DetectDisplayProtocol(wayland_display, x11_display) ==
    IF wayland_display.set /\ Len(wayland_display.str) > 0 THEN DisplayProtocol_Wayland
    ELSE IF x11_display.set /\ Len(x11_display.str) > 0 THEN DisplayProtocol_X11
    ELSE DisplayProtocol_X11

\* SelectionHook::SelectionHook in an environment with the two variables;
\* initialized is what the Initialize function of the chosen backend returns
Construct(wayland_display, x11_display, initialized) ==
    /\ last' = [NoLast EXCEPT
                   !.op = "SelectionHook",
                   !.env = [WAYLAND_DISPLAY |-> wayland_display, DISPLAY |-> x11_display],
                   !.protocol = DetectDisplayProtocol(wayland_display, x11_display),
                   !.error = IF initialized THEN ""
                             ELSE "Failed to initialize display protocol"]
    /\ UNCHANGED <<is_processing, clipboard, configVars, is_selection_passive_mode, call,
                   now, gestureVars>>
    /\ UNCHANGED lifeVars

NextConstruct ==
    \E wayland_display \in EnvValues, x11_display \in EnvValues, initialized \in BOOLEAN :
        Construct(wayland_display, x11_display, initialized)

SpecConstruct == InitDetect /\ [][NextConstruct]_vars

(***************************************************************************)
(* Teardown: sessions in which one drag is made, ended by Stop or by the   *)
(* destructor while calls may still be queued on the channels.             *)
(***************************************************************************)
NextTeardown ==
    \/ \E initOutcome \in InitOutcomes, threadOutcome \in ThreadOutcomes :
          currentInstance = "this"
              /\ Start(TRUE, initOutcome, MaxNewDevices, threadOutcome)
    \/ currentInstance = "this" /\ Stop
    \/ StopJoined
    \/ Destroy
    \/ DestroyJoined
    \/ ThreadEnter
    \/ ThreadExit
    \/ ThreadBreak
    \/ nRaw < Len(DragScript) /\ ProcessLibevdevEvent(DragScript[nRaw + 1])
    \/ \E c \in 1..MaxChannels : DispatchMouse(c, 2)
    \/ \E c \in 1..MaxChannels : DispatchText(c)
    \/ \E c \in 1..MaxChannels : Finalize(c)

SpecTeardown == InitDetect /\ [][NextTeardown]_vars

(***************************************************************************)
(* A consumer that falls behind: one session in which a device that is     *)
(* both a mouse and a keyboard sends button presses until both queues are  *)
(* full, the JavaScript thread takes a few turns only, and the session is  *)
(* ended by Stop or by the destructor.                                     *)
(***************************************************************************)
\* raw events read in the session: two more than the mouse queue takes
MaxBackpressureEvents == DEFAULT_MOUSE_EVENT_QUEUE_SIZE + 2
\* the JavaScript thread runs the calls queued for the first raw events only
MaxConsumerTurns == 2

\* channel c holds a call the slow consumer still gets to
WithinTurns(c) ==
    /\ c \in 1..Len(channels)
    /\ channels[c].queue # <<>>
    /\ Head(channels[c].queue).seq <= MaxConsumerTurns

\* events one epoll_wait hands to the thread: the thread tests
\* mouse_keyboard_running again after every BatchSize-th event
BatchSize == 4

\* the thread is inside a batch, or finds its loop test true
NextEventRead == mouse_keyboard_running \/ nRaw % BatchSize # 0

BackpressureRawEvents == {[type |-> EV_KEY, code |-> BTN_LEFT, value |-> 1]}

\* the JavaScript thread is busy except early in the session, when the
\* keyboard queue has just filled, and when the mouse queue is full: then
\* it runs queued calls, or ends the session
TeardownPoint ==
    \/ nRaw <= 1
    \/ nRaw = DEFAULT_KEYBOARD_EVENT_QUEUE_SIZE
    \/ nRaw >= DEFAULT_MOUSE_EVENT_QUEUE_SIZE

NextBackpressure ==
    \/ channels = <<>> /\ currentInstance = "this"
          /\ Start(TRUE, "scanned", MaxNewDevices, "created")
    \/ ThreadEnter
    \/ ThreadExit
    \/ \E raw \in BackpressureRawEvents :
          /\ nRaw < MaxBackpressureEvents
          /\ NextEventRead
          /\ ProcessLibevdevEventFrom(raw, ComboDevice)
    \/ \E c \in 1..MaxChannels :
          TeardownPoint /\ WithinTurns(c) /\ DispatchMouse(c, 0)
    \/ \E c \in 1..MaxChannels :
          TeardownPoint /\ WithinTurns(c) /\ DispatchKeyboard(c)
    \/ TeardownPoint /\ currentInstance = "this" /\ Stop
    \/ StopJoined
    \/ TeardownPoint /\ Destroy
    \/ DestroyJoined

SpecBackpressure == InitDetect /\ [][NextBackpressure]_vars

\* the same with a scheduler that lets the monitoring thread run, and a
\* join() that returns once the thread has ended
SpecBackpressureFair ==
    /\ SpecBackpressure
    /\ WF_vars(ThreadEnter)
    /\ WF_vars(ThreadExit)
    /\ WF_vars(StopJoined)
    /\ WF_vars(DestroyJoined)

(***************************************************************************)
(* Properties of the retrieval pipeline.                                   *)
(***************************************************************************)

\* the last operation was an on-demand retrieval whose pipeline went into
\* the clipboard fallback (the copy keystroke was sent)
FallbackRan == last.op = "GetCurrentSelection" /\ last.invoked /\ last.m.copyKeys > 0

\* C1: a GetSelectedText call that starts while another call is past the
\* guard test and has not returned is rejected: it never acquires the guard,
\* performs no selection read, clipboard read, clipboard write or copy
\* keystroke, and returns false.
C1_SecondCallRejected ==
    \A c \in Callers :
        call[c].overlapped =>
            /\ ~call[c].acquired
            /\ call[c].selReads = 0 /\ call[c].clipReads = 0
            /\ call[c].clipWrites = 0 /\ call[c].copyKeys = 0
            /\ (call[c].pc = "done" => ~call[c].ret)

\* C2: after a clipboard fallback the clipboard holds either what it held
\* before the copy keystroke or the text the application copied.
C2_ClipboardSnapshotOrCopied ==
    FallbackRan =>
        clipboard \in {last.m.clipBefore}
                        \cup (IF last.m.appCopied # NoText THEN {last.m.appCopied} ELSE {})

\* C3: after a clipboard fallback, successful or failed, the clipboard holds
\* what it held immediately before the attempt.
C3_ClipboardRestored == FallbackRan => clipboard = last.m.clipBefore

\* C4: when a GetSelectedText call that acquired the guard has returned, by
\* whichever exit path, is_processing is false.
C4_GuardReleased ==
    (last.invoked /\ last.m.acquired) => (last.m.pc = "done" /\ ~is_processing)

\* a call that acquired the guard and left by the global-filter rejection
C4_Witness ==
    /\ last.invoked /\ last.m.acquired /\ last.m.resolved
    /\ ~last.m.ret /\ last.m.selReads = 0
    /\ global_filter_mode = FilterMode_IncludeList

\* needle is a contiguous part of hay
Contains(hay, needle) ==
    \E i \in 0..Len(hay), j \in 0..Len(hay) : i <= j /\ SubSeq(hay, i + 1, j) = needle

LeftRelease ==
    last.op = "ProcessMouseEvent" /\ last.ev.code = BTN_LEFT /\ last.ev.value = 0

\* squared Euclidean distance of two points
SqDist(p, q) == (p.x - q.x) * (p.x - q.x) + (p.y - q.y) * (p.y - q.y)

\* C6: a left-button release outside passive mode at most 8000 ms after its
\* press is classified Drag iff press and release are at least 8 px apart;
\* press (0,0), release (8,0) after 100 ms is Drag, release (7,0) is not.
C6_DragIffDistance ==
    (LeftRelease /\ ~last.passive /\ now - lastMouseDownTime <= 8000) =>
        /\ last.detect = DetectType_Drag <=> SqDist(lastMouseDownPos, last.ev.pos) >= 8 * 8
        /\ (lastMouseDownPos = Point(0, 0) /\ now - lastMouseDownTime = 100) =>
              /\ last.ev.pos = Point(8, 0) => last.detect = DetectType_Drag
              /\ last.ev.pos = Point(7, 0) => last.detect # DetectType_Drag

\* press (0,0), release (8,0) 100 ms later, classified Drag
C6_Witness ==
    /\ LeftRelease /\ ~last.passive
    /\ lastMouseDownPos = Point(0, 0) /\ last.ev.pos = Point(8, 0)
    /\ now - lastMouseDownTime = 100
    /\ last.detect = DetectType_Drag

\* C7: a left-button release more than 8000 ms after its press detects
\* nothing and retrieves nothing, whatever the distance; a release exactly
\* 8000 ms after its press that moved at least 8 px is still a Drag.
C7_DragTimeCutoff ==
    /\ (LeftRelease /\ now - lastMouseDownTime > 8000) =>
          (last.detect = DetectType_None /\ ~last.invoked /\ ~last.hasResult)
    /\ (LeftRelease /\ ~last.passive /\ now - lastMouseDownTime = 8000
            /\ SqDist(lastMouseDownPos, last.ev.pos) >= 8 * 8) =>
          last.detect = DetectType_Drag

\* press (0,0), release (50,50) 8001 ms later, nothing detected
C7_Witness ==
    /\ LeftRelease /\ ~last.passive
    /\ lastMouseDownPos = Point(0, 0) /\ last.ev.pos = Point(50, 50)
    /\ now - lastMouseDownTime = 8001
    /\ last.detect = DetectType_None /\ ~last.invoked

\* C7, second case: press (0,0), release (8,0) exactly 8000 ms later is a Drag
C7_WitnessAtCutoff ==
    /\ LeftRelease /\ ~last.passive
    /\ lastMouseDownPos = Point(0, 0) /\ last.ev.pos = Point(8, 0)
    /\ now - lastMouseDownTime = 8000
    /\ last.detect = DetectType_Drag

\* the step is ProcessMouseEvent handling a left-button release outside
\* passive mode, at most 8000 ms after the press and less than 8 px from it
ClickReleaseStep ==
    /\ last'.op = "ProcessMouseEvent"
    /\ last'.ev.code = BTN_LEFT /\ last'.ev.value = 0
    /\ ~is_selection_passive_mode
    /\ now' - lastMouseDownTime <= 8000
    /\ SqDist(lastMouseDownPos, last'.ev.pos) < 8 * 8

\* the four conditions: the previous release was a valid click, this release
\* is at most 500 ms after its press, at most 3 px from the previous release,
\* and the press came at most 500 ms after the previous release
FourConditions ==
    /\ isLastValidClick
    /\ now' - lastMouseDownTime <= 500
    /\ SqDist(lastMouseUpPos, last'.ev.pos) <= 3 * 3
    /\ lastMouseDownTime - lastMouseUpTime <= 500

\* C8 as stated: for such a release whose press came after the previous
\* release, DoubleClick iff the four conditions hold and nothing else.
C8_FourConditionsOnly ==
    [][ (ClickReleaseStep /\ lastMouseDownTime > lastMouseUpTime) =>
            (last'.detect = DetectType_DoubleClick <=> FourConditions) ]_vars

\* C8: for a left-button release outside passive mode that is neither a Drag
\* nor beyond the 8000 ms cutoff, DoubleClick iff five conditions hold: the
\* previous release was a valid click, this release is at most 500 ms after
\* its press, at most 3 px from the previous release, at most 3 px from its
\* own press, and the press came no earlier than the previous release and at
\* most 500 ms after it; a release outside passive mode is recorded as a
\* valid click iff it is at most 500 ms after its press.
C8_FiveConditions ==
    [][ /\ ClickReleaseStep =>
              (last'.detect = DetectType_DoubleClick <=>
                  /\ FourConditions
                  /\ SqDist(lastMouseDownPos, last'.ev.pos) <= 3 * 3
                  /\ lastMouseDownTime >= lastMouseUpTime)
        /\ (last'.op = "ProcessMouseEvent" /\ last'.ev.code = BTN_LEFT
                /\ last'.ev.value = 0 /\ ~is_selection_passive_mode) =>
              (isLastValidClick' <=> now' - lastMouseDownTime <= 500)
      ]_vars

\* a second click released on the spot of the first, 4 px from its own
\* press, in time: nothing detected
C8_Witness ==
    /\ LeftRelease /\ ~last.passive
    /\ lastLastMouseUpPos = Point(100, 100)
    /\ lastMouseDownPos = Point(104, 100) /\ last.ev.pos = Point(100, 100)
    /\ now - lastMouseDownTime = 50 /\ isLastValidClick
    /\ last.detect = DetectType_None

\* the double-click scenario: click 1 was a valid click released at
\* (100,100) at t = 50, click 2 is pressed at (101,100) at t = 200 and the
\* step handles its release at position p at t = 250
Click2Release(p) ==
    /\ isLastValidClick
    /\ lastMouseUpPos = Point(100, 100) /\ lastMouseUpTime = StartTime + 50
    /\ lastMouseDownPos = Point(101, 100) /\ lastMouseDownTime = StartTime + 200
    /\ ~is_selection_passive_mode
    /\ now' = StartTime + 250
    /\ last'.op = "ProcessMouseEvent"
    /\ last'.ev.code = BTN_LEFT /\ last'.ev.value = 0 /\ last'.ev.pos = p

\* C9 as stated: click 2 released at (101,100) is a DoubleClick, released at
\* (110,100) it yields no detection.
C9_ReleaseAt110Undetected ==
    [][ /\ Click2Release(Point(101, 100)) => last'.detect = DetectType_DoubleClick
        /\ Click2Release(Point(110, 100)) => last'.detect = DetectType_None ]_vars

\* C9: click 2 released at (101,100) is a DoubleClick; released at (110,100),
\* 9 px from its press at (101,100), it is a Drag.
C9_ReleaseAt110Drag ==
    [][ /\ Click2Release(Point(101, 100)) => last'.detect = DetectType_DoubleClick
        /\ Click2Release(Point(110, 100)) => last'.detect = DetectType_Drag ]_vars

\* click 2 pressed at (101,100) at t = 200, released at (110,100) at t = 250
\* after a release at (100,100): classified Drag
C9_Witness ==
    /\ LeftRelease /\ ~last.passive
    /\ lastLastMouseUpPos = Point(100, 100)
    /\ lastMouseDownPos = Point(101, 100) /\ lastMouseDownTime = StartTime + 200
    /\ last.ev.pos = Point(110, 100) /\ now = StartTime + 250
    /\ last.detect = DetectType_Drag

\* C10: a mouse event handled in passive mode detects nothing, does not call
\* GetSelectedText and delivers no text selection; GetCurrentSelection in
\* passive mode with an active window runs GetSelectedText to its return,
\* guard acquired.
C10_PassiveMode ==
    /\ (last.op = "ProcessMouseEvent" /\ last.passive) =>
          (last.detect = DetectType_None /\ ~last.invoked /\ ~last.hasResult)
    /\ (last.op = "GetCurrentSelection" /\ last.passive /\ last.window # 0) =>
          (last.invoked /\ last.m.pc = "done" /\ last.m.acquired /\ last.m.selReads = 1)

\* in passive mode: press (0,0), release (8,0) 100 ms later, no retrieval
C10_Witness ==
    /\ LeftRelease /\ last.passive
    /\ lastMouseDownPos = Point(0, 0) /\ last.ev.pos = Point(8, 0)
    /\ now - lastMouseDownTime = 100
    /\ ~last.invoked

\* in passive mode: a retrieval on demand that delivered a text
C10_WitnessOnDemand ==
    last.op = "GetCurrentSelection" /\ last.passive /\ last.invoked /\ last.hasResult

(***************************************************************************)
(* Properties of the lifecycle.                                            *)
(***************************************************************************)

\* what a session consists of: flags, handles, channels with their queues,
\* the monitoring thread, the devices and the epoll descriptors
sessionVars == <<running, mouse_keyboard_running, tsfn, mouse_tsfn, keyboard_tsfn,
                 channels, event_thread, input_devices, epoll_fd, epolls_open, log>>

\* C11: a Start called while running is set raises an error and changes
\* nothing: no channel is created, no device or epoll descriptor opened, no
\* thread started, and flags, handles and queues stay as they were.
C11_StartWhileRunning ==
    [][ (last'.op = "Start" /\ running) =>
            /\ last'.error # ""
            /\ UNCHANGED sessionVars ]_vars

\* a Start rejected as already running while the monitoring thread polls
C11_Witness ==
    /\ last.op = "Start"
    /\ last.error = "Text selection hook is already running"
    /\ running /\ event_thread = "polling"
    /\ channels[mouse_tsfn].state = "open"

\* C12: a Start called with running false while the state of a prior run
\* is still there (mouse_keyboard_running true, or the thread object
\* joinable, or devices still open) raises an error.
C12_StartOnUncleanState ==
    [][ (last'.op = "Start" /\ ~running
            /\ (mouse_keyboard_running \/ Joinable \/ input_devices > 0)) =>
            last'.error # "" ]_vars

\* C13: a Stop called with running false (before any Start, or again after
\* a Stop) returns at once without raising and without joining, and leaves
\* flags, handles, channels, thread, devices and epoll descriptors as they
\* were: no channel is released again.
C13_StopWhenNotRunning ==
    [][ (last'.op = "Stop" /\ mainPc = "idle" /\ ~running) =>
            /\ last'.returned /\ last'.error = ""
            /\ mainPc' = "idle"
            /\ UNCHANGED sessionVars ]_vars

\* a Stop that has returned although no Start was ever accepted
C13_Witness ==
    /\ last.op = "Stop" /\ last.returned
    /\ ~running /\ channels = <<>> /\ event_thread = "none"

\* a Stop that has returned after a session was started: nothing of the
\* session is left open
C13_WitnessAfterSession ==
    /\ last.op = "Stop" /\ last.returned /\ stopped
    /\ ~running /\ event_thread = "none"
    /\ \A c \in 1..Len(channels) : channels[c].state # "open"

\* C14: whenever a call of Stop has returned, no monitoring thread is alive.
C14_StopWaitsForThread ==
    (last.op = "Stop" /\ last.returned) => ~ThreadAlive

\* a call of Start has just failed after it had created its channels
StartFailed ==
    /\ last.op = "Start"
    /\ last.error \in {"Failed to initialize input devices",
                       "Failed to start mouse keyboard event thread"}

\* C15: after a Start that failed in device initialisation or in starting the
\* thread, running and mouse_keyboard_running are false, no monitoring thread
\* exists, no device and no epoll descriptor opened by this Start is still
\* open, and every channel this Start created is released.
C15_FailedStartUnwinds ==
    [][ StartFailed' =>
            /\ ~running' /\ ~mouse_keyboard_running'
            /\ event_thread' = "none"
            /\ input_devices' <= input_devices
            /\ epolls_open' <= epolls_open
            /\ \A c \in (Len(channels) + 1)..Len(channels') :
                    channels'[c].state # "open" ]_vars

\* C16: the TextSelectionInfo a call of GetSelectedText hands back, whether
\* the call succeeded or failed and by whichever path it left, has a method
\* other than None iff its text is not empty.
C16_MethodIffText ==
    last.invoked =>
        /\ last.m.pc = "done"
        /\ (last.m.info.method # SelectionMethod_None) <=> (last.m.info.text # NoText)

\* a successful call that took the text from the clipboard and wrote the
\* snapshot back before it set the method
C16_Witness ==
    /\ last.invoked /\ last.m.ret
    /\ last.m.info.method = SelectionMethod_Clipboard
    /\ last.m.info.text # NoText
    /\ last.m.clipWrites = 1

\* a failed call that went through both strategies and the restoring write
C16_WitnessFailure ==
    /\ last.invoked /\ ~last.m.ret
    /\ last.m.clipReads = 2 /\ last.m.clipWrites = 1
    /\ last.m.info.method = SelectionMethod_None
    /\ last.m.info.text = NoText

\* C17: once a Stop that ended a session has returned, and until the next
\* accepted Start, no notification is delivered to the consumer: the log of
\* delivered notifications does not grow, also not by events that were
\* queued in a channel when Stop was called.
C17_NoCallbackAfterStop ==
    [][ (stopped /\ stopped') => log' = log ]_vars

\* C18: every run of ProcessMouseEvent on an event taken from the mouse
\* channel hands exactly one mouse-event object to the callback, whatever
\* the detection and the retrieval did.
C18_OneMouseEventPerEvent ==
    [][ last'.op = "ProcessMouseEvent" =>
            /\ Len(log') = Len(log) + 1
            /\ log'[Len(log')].type = "mouse-event" ]_vars

\* C19: every text-selection object handed to the callback is preceded in
\* the order of delivery by the mouse-event "mouse-up" of the release that
\* produced it.
C19_TextAfterMouseUp ==
    \A i \in 1..Len(log) :
        log[i].type = "text-selection" =>
            \E j \in 1..(i - 1) :
                /\ log[j].type = "mouse-event"
                /\ log[j].action = "mouse-up"
                /\ log[j].seq = log[i].seq

\* a text-selection object has been delivered
C19_Witness ==
    \E i \in 1..Len(log) : log[i].type = "text-selection"

\* a step of getCurrentSelection, or of ProcessMouseEvent on a release that
\* triggered detection, whose retrieval produced no text
RetrievalFailed ==
    /\ UNCHANGED call
    /\ \/ last'.op = "GetCurrentSelection"
       \/ last'.op = "ProcessMouseEvent" /\ last'.detect # DetectType_None
    /\ ~last'.hasResult

\* C20: a retrieval that fails (no active window, guard held, rejection by
\* the global filter, no text from the selection nor from the clipboard)
\* raises nothing and returns null, queues and delivers no text-selection
\* and nothing but the mouse-event of the handled event, and does not leave
\* the guard set: the next retrieval is not rejected because of it.
C20_FailureIsPlainNone ==
    [][ RetrievalFailed =>
            /\ last'.error = "" /\ last'.returned
            /\ last'.result = ClearedInfo
            /\ \A c \in 1..Len(channels) :
                  channels[c].kind = "text" => channels'[c].queue = channels[c].queue
            /\ \A i \in (Len(log) + 1)..Len(log') : log'[i].type = "mouse-event"
            /\ is_processing' => is_processing ]_vars

\* a drag release whose retrieval was rejected by the global filter; its
\* mouse-event was delivered
C20_Witness ==
    /\ last.op = "ProcessMouseEvent" /\ last.detect = DetectType_Drag
    /\ last.invoked /\ last.window = 2 /\ ~last.hasResult
    /\ global_filter_mode = FilterMode_IncludeList /\ global_filter_list = <<>>
    /\ log # <<>> /\ log[Len(log)].action = "mouse-up"

\* getCurrentSelection turned away by the guard another context holds
C20_WitnessGuardBusy ==
    /\ last.op = "GetCurrentSelection" /\ last.invoked
    /\ ~last.m.acquired /\ ~last.hasResult
    /\ is_processing

\* getCurrentSelection with no active window
C20_WitnessNoWindow ==
    /\ last.op = "GetCurrentSelection" /\ ~last.invoked /\ ~last.hasResult

\* a drag release for which neither the selection nor the clipboard gave a text
C20_WitnessNoText ==
    /\ last.op = "ProcessMouseEvent" /\ last.detect = DetectType_Drag
    /\ last.invoked /\ last.window = 2 /\ ~last.hasResult
    /\ global_filter_mode = FilterMode_Default

(***************************************************************************)
(* Properties of event forwarding.                                         *)
(***************************************************************************)
\* the calls waiting on the mouse channel of the session
MouseQueue == channels[mouse_tsfn].queue

\* the monitoring thread has just handled a raw event with one of the codes
ThreadHandled(codes) ==
    /\ last'.op = "ProcessLibevdevEvent"
    /\ last'.ev.code \in codes

\* the step appended exactly one call to the mouse channel, for the event
\* the thread handled
QueuedOne ==
    /\ Len(MouseQueue') = Len(MouseQueue) + 1
    /\ SubSeq(MouseQueue', 1, Len(MouseQueue)) = MouseQueue
    /\ MouseQueue'[Len(MouseQueue')].code = last'.ev.code
    /\ MouseQueue'[Len(MouseQueue')].value = last'.ev.value

\* C21: a REL_X or REL_Y motion read by the monitoring thread is queued on
\* the mouse channel, once, iff move reporting is on at that moment; the
\* toggle is off initially, enableMouseMoveEvent switches it on and
\* disableMouseMoveEvent off.
C21_MoveOnlyWhenEnabled ==
    [][ /\ ThreadHandled({REL_X, REL_Y}) =>
              IF is_enabled_mouse_move_event THEN QueuedOne
              ELSE MouseQueue' = MouseQueue
        /\ last'.op = "EnableMouseMoveEvent" => is_enabled_mouse_move_event'
        /\ last'.op = "DisableMouseMoveEvent" => ~is_enabled_mouse_move_event' ]_vars

\* a motion handled after the toggle was switched on and off again: the
\* first motion is waiting on the channel, the second was not queued
C21_Witness ==
    /\ last.op = "ProcessLibevdevEvent" /\ last.ev.code = REL_Y
    /\ ~is_enabled_mouse_move_event
    /\ nRaw = 2
    /\ Len(MouseQueue) = 1 /\ MouseQueue[1].code = REL_X /\ MouseQueue[1].seq = 1

\* a motion handled with the toggle never switched on moved the position
\* and queued nothing
C21_WitnessDefaultOff ==
    /\ last.op = "ProcessLibevdevEvent" /\ last.ev.code = REL_X
    /\ nRaw = 1 /\ current_mouse_pos # Point(0, 0)
    /\ MouseQueue = <<>> /\ log = <<>>

\* C22: every press and release of a mouse button (left, middle, right,
\* back, forward or any other) and every wheel step read by the monitoring
\* thread is queued on the mouse channel, once, whatever the move toggle is.
C22_ButtonsAndWheelAlwaysQueued ==
    [][ ThreadHandled({BTN_LEFT, BTN_MIDDLE, BTN_RIGHT, BTN_BACK, BTN_FORWARD, BTN_TASK,
                       REL_WHEEL, REL_HWHEEL}) => QueuedOne ]_vars

\* the handler has just been given a raw button event, with a callback set
ButtonMapped ==
    /\ last.op = "ProcessXInput2Event"
    /\ last.cookie.evtype \in {XI_RawButtonPress, XI_RawButtonRelease}
    /\ last.invoked

\* C23: a raw button event with number d is handed to the callback as
\* exactly one event whose button and flag are: Left, Middle, Right for 1, 2,
\* 3; WheelVertical with flag +1 for 4 and -1 for 5; WheelHorizontal with
\* flag -1 for 6 and +1 for 7; Back and Forward for 8 and 9; for every other
\* d Unknown, flag 0 and the code field equal to d.
C23_ButtonMapping ==
    ButtonMapped =>
        /\ Len(last.out) = 1
        /\ LET d == last.cookie.detail
               e == last.out[1]
               is(button, flag) == e.button = button /\ e.flag = flag
           IN CASE d = 1 -> is(MouseButton_Left, 0)
                [] d = 2 -> is(MouseButton_Middle, 0)
                [] d = 3 -> is(MouseButton_Right, 0)
                [] d = 4 -> is(MouseButton_WheelVertical, 1)
                [] d = 5 -> is(MouseButton_WheelVertical, -1)
                [] d = 6 -> is(MouseButton_WheelHorizontal, -1)
                [] d = 7 -> is(MouseButton_WheelHorizontal, 1)
                [] d = 8 -> is(MouseButton_Back, 0)
                [] d = 9 -> is(MouseButton_Forward, 0)
                [] OTHER -> is(MouseButton_Unknown, 0) /\ e.code = d

\* the release of an unrecognized button 10 was mapped
C23_Witness ==
    /\ ButtonMapped /\ last.cookie.evtype = XI_RawButtonRelease
    /\ last.cookie.detail = 10
    /\ last.out[1].code = 10 /\ last.out[1].button = MouseButton_Unknown

\* a step of the horizontal wheel to the left was mapped
C23_WitnessWheel ==
    /\ ButtonMapped /\ last.cookie.detail = 6
    /\ last.out[1].code = REL_HWHEEL /\ last.out[1].flag = -1

\* C24: the backend chosen by the constructor is Wayland when
\* WAYLAND_DISPLAY is set and not empty, whatever DISPLAY is, and X11
\* otherwise: with DISPLAY set and not empty, and with both unset or empty.
C24_BackendSelection ==
    last.op = "SelectionHook" =>
        LET nonEmpty(v) == v.set /\ v.str # <<>>
        IN /\ nonEmpty(last.env.WAYLAND_DISPLAY) => last.protocol = DisplayProtocol_Wayland
           /\ ~nonEmpty(last.env.WAYLAND_DISPLAY) => last.protocol = DisplayProtocol_X11

\* both variables set and not empty: Wayland
C24_Witness ==
    /\ last.op = "SelectionHook"
    /\ last.env.WAYLAND_DISPLAY.str = <<"0">> /\ last.env.DISPLAY.str = <<":", "0">>
    /\ last.protocol = DisplayProtocol_Wayland

\* WAYLAND_DISPLAY set to the empty string and DISPLAY unset: X11
C24_WitnessDefault ==
    /\ last.op = "SelectionHook"
    /\ last.env.WAYLAND_DISPLAY = [set |-> TRUE, str |-> <<>>]
    /\ ~last.env.DISPLAY.set
    /\ last.protocol = DisplayProtocol_X11

(***************************************************************************)
(* Further properties of the retrieval pipeline.                           *)
(***************************************************************************)
\* C25: a call of GetSelectedText in which the read of the selection gave a
\* non-empty text returns success with that text and the method
\* X11Selection, reads and writes no clipboard and sends no copy keystroke;
\* the clipboard content after the call is the content before it.
C25_NativeSuccessLeavesClipboard ==
    [][ (last'.invoked /\ last'.m.nativeText # NoText) =>
            /\ last'.m.ret
            /\ last'.m.info.method = SelectionMethod_X11Selection
            /\ last'.m.info.text = last'.m.nativeText
            /\ last'.m.clipReads = 0 /\ last'.m.clipWrites = 0 /\ last'.m.copyKeys = 0
            /\ clipboard' = clipboard ]_vars

\* a native success while the user had a text on the clipboard and
\* clipboard fallback was enabled
C25_Witness ==
    /\ last.op = "GetCurrentSelection" /\ last.invoked
    /\ last.m.nativeText = "t1" /\ last.hasResult
    /\ clipboard = "t2" /\ is_enabled_clipboard
    /\ clipboard_filter_mode = FilterMode_Default

\* the call GetSelectedText just made read or wrote the clipboard or sent
\* the copy keystroke
TouchedClipboard ==
    last.invoked /\ (last.m.copyKeys > 0 \/ last.m.clipReads > 0 \/ last.m.clipWrites > 0)

\* C26: a retrieval sends the copy keystroke or touches the clipboard only
\* if its selection read gave no text, clipboard fallback is enabled and the
\* program name passes the clipboard filter, decided on the clipboard list
\* alone: always in Default mode, in IncludeList mode iff the lower-cased
\* name contains an entry of the clipboard list, in ExcludeList mode iff it
\* contains none.
C26_ClipboardOnlyWhenAllowed ==
    TouchedClipboard =>
        /\ last.m.nativeText = NoText
        /\ is_enabled_clipboard
        /\ LET P == ToLower(last.m.info.programName)
               hit == \E i \in 1..Len(clipboard_filter_list) :
                         Contains(P, clipboard_filter_list[i])
           IN /\ clipboard_filter_mode = FilterMode_IncludeList => hit
              /\ clipboard_filter_mode = FilterMode_ExcludeList => ~hit

\* the keystroke was sent for a program on the clipboard include list that
\* the global exclude list does not name
C26_Witness ==
    /\ TouchedClipboard /\ last.m.copyKeys = 1
    /\ clipboard_filter_mode = FilterMode_IncludeList
    /\ clipboard_filter_list = << <<"a">> >>
    /\ global_filter_mode = FilterMode_ExcludeList
    /\ global_filter_list # <<>>

\* with clipboard fallback disabled a retrieval without native text ends
\* without keystroke
C26_WitnessDisabled ==
    /\ last.invoked /\ last.m.selReads = 1 /\ last.m.nativeText = NoText
    /\ ~is_enabled_clipboard
    /\ ~TouchedClipboard /\ ~last.m.ret

\* C27: a call that returns a text by the clipboard strategy took it from
\* a clipboard content read after the copy keystroke that is not empty and
\* is not the content it had snapshotted before the keystroke.
C27_ClipboardResultIsNew ==
    (last.invoked /\ last.m.info.method = SelectionMethod_Clipboard) =>
        /\ last.m.newContent # NoText
        /\ last.m.info.text = last.m.newContent
        /\ ~(last.m.hasOriginalContent /\ last.m.newContent = last.m.originalContent)

\* the call GetSelectedText just made took the guard and could not resolve
\* the program name of the window
Unresolved == last.invoked /\ last.m.acquired /\ ~last.m.resolved

\* C28: when the program name of the window cannot be resolved, in global
\* IncludeList mode the call fails before any selection read, clipboard
\* read or write and copy keystroke; in Default and ExcludeList mode it goes
\* on to the selection read with an empty programName, whatever the global
\* list holds.
C28_UnresolvedProgramName ==
    Unresolved =>
        /\ last.m.info.programName = <<>>
        /\ IF global_filter_mode = FilterMode_IncludeList
              THEN /\ ~last.m.ret /\ ~last.hasResult
                   /\ last.m.selReads = 0 /\ last.m.clipReads = 0
                   /\ last.m.clipWrites = 0 /\ last.m.copyKeys = 0
              ELSE last.m.selReads = 1

\* an unresolved name rejected by an include list
C28_Witness ==
    /\ Unresolved /\ global_filter_mode = FilterMode_IncludeList
    /\ ~last.m.ret /\ last.m.selReads = 0

\* an unresolved name that went on under an exclude list holding the empty
\* string, which an empty name would match if the list were consulted
C28_WitnessExclude ==
    /\ Unresolved /\ global_filter_mode = FilterMode_ExcludeList
    /\ global_filter_list = << <<>> >>
    /\ last.m.selReads = 1 /\ last.m.ret

(***************************************************************************)
(* Further properties of the gesture detector.                             *)
(***************************************************************************)
\* the handler has just run on a release of the left button
LeftReleaseStep ==
    /\ last'.op = "ProcessMouseEvent"
    /\ last'.ev.code = BTN_LEFT /\ last'.ev.value = 0

\* C29: every release of the left button, in passive mode and beyond the
\* 8000 ms cutoff too, shifts the previous release position into
\* lastLastMouseUpPos, stores its own position and time, and sets
\* isLastValidClick to whether it came at most 500 ms after its press.
C29_ClickHistoryUnconditional ==
    [][ LeftReleaseStep =>
            /\ lastLastMouseUpPos' = lastMouseUpPos
            /\ lastMouseUpPos' = last'.ev.pos
            /\ lastMouseUpTime' = now'
            /\ isLastValidClick' = (now' - lastMouseDownTime <= 500) ]_vars

\* the handler has just run on an event that is not a left-button event
OtherEventStep ==
    /\ last'.op = "ProcessMouseEvent"
    /\ last'.ev.code \in {BTN_RIGHT, BTN_MIDDLE, REL_WHEEL, REL_HWHEEL, REL_X, REL_Y}

\* C30: a right-button, middle-button, wheel or move event triggers no
\* retrieval and leaves the down anchor and time, both previous release
\* positions, the previous release time and the last-valid-click flag as
\* they were, so every later release is classified as it would have been
\* without the event.
C30_OnlyLeftDrivesDetector ==
    [][ OtherEventStep =>
            /\ ~last'.invoked
            /\ last'.detect = DetectType_None
            /\ UNCHANGED gestureVars
            /\ \A p \in PassivePositions, t \in ClockReadings(PassiveTimeOffsets) :
                  DetectOnRelease(p, t)' = DetectOnRelease(p, t) ]_vars

\* a right-button release at a drag's distance from a pending left press
C30_Witness ==
    /\ last.op = "ProcessMouseEvent"
    /\ last.ev.code = BTN_RIGHT /\ last.ev.value = 0
    /\ ~last.passive
    /\ lastMouseDownTime > lastMouseUpTime
    /\ ~DistanceAtMost(last.ev.pos, lastMouseDownPos, DOUBLE_CLICK_MAX_DISTANCE)

\* a wheel step between the two clicks of a double click
C30_WitnessBetweenClicks ==
    /\ last.op = "ProcessMouseEvent"
    /\ last.ev.code = REL_WHEEL
    /\ isLastValidClick
    /\ lastMouseUpTime >= lastMouseDownTime /\ lastMouseDownTime > 0

\* a detected gesture whose retrieval gave a text: the result is delivered
GestureResult ==
    /\ last.op = "ProcessMouseEvent"
    /\ last.detect # DetectType_None
    /\ last.hasResult

C31_WitnessDoubleClick ==
    /\ GestureResult
    /\ last.detect = DetectType_DoubleClick
    /\ last.ev.pos # Point(0, 0)

(***************************************************************************)
(* Properties of teardown and backpressure.                                *)
(***************************************************************************)
\* the JavaScript thread is inside join(), in Stop or in the destructor
Joining == mainPc \in {"Stop joins", "~SelectionHook joins"}

C32_WitnessDestructor ==
    /\ mainPc = "~SelectionHook joins"
    /\ ThreadAlive
    /\ ~HasRoom(channels[keyboard_tsfn])

\* C33: no callback run on the JavaScript thread (the mouse-event handler,
\* the queued text-selection delivery) dereferences currentInstance after
\* the destructor has set it to nullptr.
C33_NoDereferenceAfterDestruction ==
    last.deref # "nullptr"

\* the queue of every channel with a limit is within the limit
WithinCapacity(chs) ==
    \A c \in 1..Len(chs) :
        MaxQueueSize(chs[c].kind) = 0 \/ Len(chs[c].queue) <= MaxQueueSize(chs[c].kind)

\* what an enqueue through handle h of an item numbered seq did to the queue
EnqueuedOrDropped(h, seq) ==
    LET q == channels[h].queue
        q2 == channels'[h].queue
    IN IF channels[h].state = "open" /\ Len(q) < MaxQueueSize(channels[h].kind)
          THEN Len(q2) = Len(q) + 1 /\ SubSeq(q2, 1, Len(q)) = q /\ q2[Len(q2)].seq = seq
          ELSE q2 = q

\* C34: the queue of the mouse channel never holds more than 512 calls and
\* that of the keyboard channel never more than 128; a step of the thread
\* that captures an event leaves the thread in its loop, appends the event
\* to each queue that has room, drops it for a queue that is full, and
\* neither removes nor reorders the calls already queued.
C34_NonBlockingEnqueue ==
    [][ /\ WithinCapacity(channels')
        /\ last'.op = "ProcessLibevdevEvent" =>
              /\ event_thread' = "polling"
              /\ Len(channels') = Len(channels)
              /\ EnqueuedOrDropped(mouse_tsfn, nRaw')
              /\ EnqueuedOrDropped(keyboard_tsfn, nRaw')
              /\ channels'[tsfn] = channels[tsfn] ]_vars

\* the mouse queue is full and the event just captured was dropped, after
\* earlier events had been dropped and the thread had gone on capturing
C34_Witness ==
    /\ last.op = "ProcessLibevdevEvent"
    /\ event_thread = "polling"
    /\ Len(channels[mouse_tsfn].queue) = DEFAULT_MOUSE_EVENT_QUEUE_SIZE
    /\ channels[mouse_tsfn].queue[DEFAULT_MOUSE_EVENT_QUEUE_SIZE].seq < nRaw - 1

\* the keyboard queue was full, the consumer ran one call, and an event
\* captured after dropped ones is queued behind the calls that were waiting
C34_WitnessKeyboard ==
    /\ last.op = "ProcessLibevdevEvent"
    /\ Len(channels[keyboard_tsfn].queue) = DEFAULT_KEYBOARD_EVENT_QUEUE_SIZE
    /\ channels[keyboard_tsfn].queue[DEFAULT_KEYBOARD_EVENT_QUEUE_SIZE].seq = nRaw
    /\ nRaw > DEFAULT_KEYBOARD_EVENT_QUEUE_SIZE + 1
    /\ Head(channels[keyboard_tsfn].queue).seq > 1

(***************************************************************************)
(* Properties of position tracking.                                        *)
(***************************************************************************)
\* the deltas of a raw event, as a point
DeltaOf(ev) ==
    IF ev.code = REL_X THEN Point(ev.value, 0)
    ELSE IF ev.code = REL_Y THEN Point(0, ev.value)
    ELSE Point(0, 0)

\* C35 for the libevdev thread: the tracked position starts at (0,0), every
\* captured event adds its relative delta to it (nothing for a button or a
\* wheel event) whether move events are reported or not, no other step
\* changes it, and the event queued for the capture carries the position
\* after the delta.
C35_LibevdevPositionIsSum ==
    [][ IF last'.op = "ProcessLibevdevEvent"
           THEN /\ current_mouse_pos' =
                      Point(current_mouse_pos.x + DeltaOf(last'.ev).x,
                            current_mouse_pos.y + DeltaOf(last'.ev).y)
                /\ Len(channels'[mouse_tsfn].queue) > Len(channels[mouse_tsfn].queue) =>
                      LET q == channels'[mouse_tsfn].queue
                      IN q[Len(q)].pos = current_mouse_pos'
           ELSE current_mouse_pos' = current_mouse_pos ]_vars

\* a move was captured while move events were not reported, and a button
\* event queued afterwards carries the moved position
C35_WitnessLibevdev ==
    /\ last.op = "ProcessLibevdevEvent"
    /\ last.ev.code = BTN_LEFT
    /\ ~is_enabled_mouse_move_event
    /\ current_mouse_pos # Point(0, 0)
    /\ channels[mouse_tsfn].queue # <<>>
    /\ channels[mouse_tsfn].queue[Len(channels[mouse_tsfn].queue)].pos = current_mouse_pos

\* twice the distance between a whole number of pixels and a number of
\* half pixels
HalvesApart(pixels, halves) ==
    IF 2 * pixels >= halves THEN 2 * pixels - halves ELSE halves - 2 * pixels

\* C35: the position tracked from XInput2 raw motion equals (0,0) plus the
\* sum of the raw deltas handled so far, to the whole pixel: it is less than
\* one pixel away from the sum on either axis.
C35_PositionIsSumOfDeltas ==
    /\ HalvesApart(xi_mouse_pos.x, xi_delta_sum.x) < 2
    /\ HalvesApart(xi_mouse_pos.y, xi_delta_sum.y) < 2

(***************************************************************************)
(* Properties of sessions.                                                 *)
(***************************************************************************)
\* the number of the raw event whose press the handler recorded last, as
\* the consumer saw it; 0 when no press was handled
LastDownSeq ==
    LET downs == {i \in 1..Len(log) : log[i].action = "mouse-down"}
    IN IF downs = {} THEN 0
       ELSE log[CHOOSE i \in downs : \A j \in downs : j <= i].seq

\* C36: a gesture detected on a release captured in the current session is
\* anchored by a press captured in the current session, not by one recorded
\* before the last Start.
C36_GestureStatePerSession ==
    (/\ last.op = "ProcessMouseEvent"
     /\ last.detect # DetectType_None
     /\ last.ev.seq > sessionStart)
        => LastDownSeq > sessionStart

\* the session a successful Start began is running
SessionRunning == running /\ mouse_keyboard_running

\* C37: a running session (running and mouse_keyboard_running both true)
\* stops running only by a call of Stop or by the destructor; the finalizer
\* of a channel released earlier does not clear either flag of it.
C37_RunningUntilStopped ==
    [][ (SessionRunning /\ ~SessionRunning') =>
            last'.op \in {"Stop", "~SelectionHook"} ]_vars

\* C38: whenever running is true a monitoring thread is alive (created and
\* not yet returned from MouseKeyboardEventThreadProc).
C38_RunningImpliesThread ==
    running => ThreadAlive

\* C39: whenever a call of Stop that ended a session has returned, the device
\* table is empty and no epoll descriptor is open: every input-device
\* descriptor and the epoll descriptor of the session are closed.
C39_StopClosesDevices ==
    (last.op = "Stop" /\ last.returned /\ stopped) =>
        /\ input_devices = 0
        /\ epoll_fd = -1
        /\ epolls_open = 0

\* C40: no channel is released more than once, and once the instance is
\* destroyed every channel ever created has been released exactly once.
C40_ReleasedExactlyOnce ==
    /\ \A c \in 1..Len(channels) : channels[c].releases <= 1
    /\ (currentInstance = "nullptr" /\ mainPc = "idle") =>
            \A c \in 1..Len(channels) : channels[c].releases = 1

====
